---- MODULE Spec2Model ----
(***************************************************************************)
(* Model of kkestell/recipe-formatter.                                     *)
(*                                                                         *)
(* Two programs live in the repository:                                    *)
(*   prog = "batch"  : src/main.py, the staged pipeline built on           *)
(*                     run_pipeline_step (retry loop, JSON dict recipe);   *)
(*   prog = "stream" : src/src/recipe_formatter/main.py, the streaming     *)
(*                     pipeline built on the model handlers' query /       *)
(*                     _generate_stream (partial results, callbacks).      *)
(* One run of one program is one behaviour: Init draws the command line,   *)
(* the environment and the fetched page; every action is one step of the   *)
(* program, its external inputs (service replies, failures, interrupts)    *)
(* drawn from small sets.                                                  *)
(***************************************************************************)
EXTENDS Integers, Sequences, FiniteSets, TLC

VARIABLES
    prog,        \* which program runs: "batch" or "stream"
    args,        \* parsed command line (argparse namespace)
    env,         \* environment / configuration: API key, engine
    pc,          \* position of main
    recipe,      \* main's variable `recipe`
    reviews,     \* main's variable `reviews` (batch)
    inStep,      \* inside run_pipeline_step / query
    content,     \* run_pipeline_step's local `recipe` (the request's user content)
    attempts,    \* run_pipeline_step's local `attempts`
    errs,        \* exceptions caught so far inside run_pipeline_step, one per failed attempt
    sleeps,      \* time.sleep(10) calls taken by the current stage
    request,     \* the last request handed to the service
    called,      \* a text-generation call has been issued in the run
    fetched,     \* the recipe URL has been requested
    prevStage,   \* the last stage that completed
    prevReply,   \* the value that stage returned
    ran,         \* the stages and closing steps completed so far, in order
    yielded,     \* number of objects the response stream has yielded (stream)
    lastYielded, \* the last object the response stream yielded, or None (stream)
    final_obj,   \* the handler's local `final_obj` (stream)
    failure,     \* the exception that ended the run, or None
    fileOpens,   \* open() calls on the output file
    fileWrites,  \* f.write() calls on the output file that returned
    stdoutWrites,\* documents printed to stdout
    outFormat,   \* the format the output step resolved, None before it did
    exit,        \* exit status of the process, None while running
    pure         \* the call of a pure function under study: its input and results

vars == <<prog, args, env, pc, recipe, reviews, inStep, content, attempts, errs,
          sleeps, request, called, fetched, prevStage, prevReply, ran, yielded,
          lastYielded, final_obj, failure, fileOpens, fileWrites, stdoutWrites,
          outFormat, exit, pure>>

(***************************************************************************)
(* Python values.  None is the empty tuple and Some(x) the one-element     *)
(* tuple, so that an optional value is always a sequence.                  *)
(***************************************************************************)
None == <<>>
Some(x) == <<x>>
IsNone(o) == o = <<>>
Val(o) == o[1]

\* dict.get(key, default)
Get(d, k, default) == IF k \in DOMAIN d THEN d[k] ELSE default

\* d[key] = value on a dict: adds the key or replaces its value
SetKey(d, k, v) == [x \in (DOMAIN d) \cup {k} |-> IF x = k THEN v ELSE d[x]]

(***************************************************************************)
(* The recipe dicts the service may answer with (src/main.py).             *)
(***************************************************************************)
IGroup(t, items) == [title |-> t, ingredients |-> items]
SGroup(t, items) == [title |-> t, instructions |-> items]

\* one untitled group each, as recipe_to_json_prompt asks for
ReplyPlain ==
    [title |-> "Cake",
     ingredient_groups |-> <<IGroup("", <<"flour">>)>>,
     instruction_groups |-> <<SGroup("", <<"mix">>)>>]

\* a single titled ingredient group; two instruction groups, one of them empty
ReplyGrouped ==
    [title |-> "Cake",
     ingredient_groups |-> <<IGroup("For the Cake", <<"sugar", "eggs">>)>>,
     instruction_groups |-> <<SGroup("Making the Cake", <<"bake">>),
                              SGroup("Serving", <<>>)>>]

\* a whole recipe that carries its own source, scale and reviews
ReplyExtras ==
    [title |-> "Pie",
     ingredient_groups |-> <<IGroup("For the Crust", <<"butter">>),
                             IGroup("For the Filling", <<"apples">>)>>,
     instruction_groups |-> <<SGroup("Making the Pie", <<"fill">>)>>,
     source |-> "elsewhere",
     scale |-> 9,
     reviews |-> <<"stale">>]

\* the answer reviews_prompt asks for; as a recipe it has no groups
ReplyParagraphs == [paragraphs |-> <<"add salt">>]

Replies == {ReplyPlain, ReplyGrouped, ReplyExtras, ReplyParagraphs}

\* json.dumps / json.loads: a document is tagged text; Malformed is content
\* that json.loads rejects
Dumps(d) == [json |-> d]
Malformed == [garbage |-> "{"]
IsJson(c) == "json" \in DOMAIN c
Loads(c) == c.json
Contents == {Dumps(r) : r \in Replies} \cup {Malformed}

\* the text fetch_recipe_from_url returns
RawText == [text |-> "page"]
IsDict(r) == "text" \notin DOMAIN r

(***************************************************************************)
(* src/main.py: the command line and the order of the stages.              *)
(***************************************************************************)
MaxAttempts == 3

\* the stages of main in program order (lines 686-737)
StageOrder ==
    <<"convert", "norm_ingr", "norm_instr", "group", "title_notes",
      "scale", "tips", "revise", "final">>

BatchStages == {StageOrder[i] : i \in DOMAIN StageOrder}

\* the stages whose result replaces the whole recipe
WholeStages == {"convert", "group", "title_notes", "scale", "revise", "final"}

\* guards under which the tips stage runs whether or not reviews were fetched
StageEnabled_AnyTips(s, a, rv) ==
    CASE s = "convert" -> TRUE
      [] s \in {"norm_ingr", "norm_instr", "title_notes", "final"} -> a.normalize
      [] s = "group" -> a.group
      [] s = "scale" -> a.scale # 1
      [] s = "tips" -> a.tips
      [] s = "revise" -> ~IsNone(a.revise) /\ Val(a.revise) # ""

\* the `if` that guards each stage in main
StageEnabled(s, a, rv) ==
    CASE s = "convert" -> TRUE
      [] s \in {"norm_ingr", "norm_instr", "title_notes", "final"} -> a.normalize
      [] s = "group" -> a.group
      [] s = "scale" -> a.scale # 1
      [] s = "tips" -> a.tips /\ rv # <<>>
      [] s = "revise" -> ~IsNone(a.revise) /\ Val(a.revise) # ""

\* position of a stage in StageOrder
StageIndex(s) == CHOOSE i \in DOMAIN StageOrder : StageOrder[i] = s

\* where main goes after stage s : the next stage whose `if` holds, else
\* the group-title clearing of lines 739-746
AfterStage_Skip(s, a, rv) == "finish"
AfterStage(s, a, rv) ==
    LET later == {i \in DOMAIN StageOrder :
                    i > StageIndex(s) /\ StageEnabled(StageOrder[i], a, rv)}
    IN IF later = {} THEN "finish"
       ELSE StageOrder[CHOOSE i \in later : \A j \in later : i <= j]

\* the system prompt of each stage
Prompt(s, a, rv) ==
    CASE s = "convert" -> [template |-> "recipe_to_json_prompt", tail |-> <<>>]
      [] s = "norm_ingr" -> [template |-> "update_ingredients_prompt", tail |-> <<>>]
      [] s = "norm_instr" -> [template |-> "update_instructions_prompt", tail |-> <<>>]
      [] s = "group" ->
            [template |-> "group_ingredients_and_instructions_prompt", tail |-> <<>>]
      [] s = "title_notes" ->
            [template |-> "update_title_and_notes_prompt", tail |-> <<>>]
      [] s = "scale" -> [template |-> "scale_prompt", tail |-> <<>>]
      [] s = "tips" -> [template |-> "reviews_prompt", tail |-> rv]
      [] s = "revise" -> [template |-> "revisions_prompt", tail |-> a.revise]
      [] s = "final" -> [template |-> "final_prompt", tail |-> <<>>]

(***************************************************************************)
(* Ending the run.                                                         *)
(***************************************************************************)
\* an exception leaves main: the interpreter prints it and exits non-zero
\* (origin names the statement that raised: "fetch", "config", "service",
\* "interrupt", "response", "callback", "main", "render" or "output")
Raise(e, origin, status) ==
    /\ pc' = "failed"
    /\ failure' = Some([type |-> e, origin |-> origin])
    /\ exit' = Some(status)

\* variables of the streaming program, untouched by src/main.py
StreamVars == <<yielded, lastYielded, final_obj>>

\* variables of the output step
OutVars == <<fileOpens, fileWrites, stdoutWrites, outFormat>>

(***************************************************************************)
(* src/main.py: fetch_recipe_from_url (line 681).                          *)
(***************************************************************************)
\* the review bodies format_recipe may return with the page
FetchedReviews == {<<>>, <<"too sweet">>}

\* what fetch_recipe_from_url raises: raise_for_status (line 378), "No recipe
\* content found." (line 368), and the errors extract_recipe_json and
\* format_recipe let through (lines 317, 320, 323, 346, 350)
FetchErrors == {"HTTPError", "ValueError", "TypeError", "AttributeError", "KeyError"}

Fetch ==
    /\ prog = "batch" /\ pc = "fetch"
    /\ fetched' = TRUE
    /\ \/ \E rv \in FetchedReviews :
            /\ recipe' = RawText
            /\ reviews' = rv
            /\ pc' = "convert"
            /\ UNCHANGED <<failure, exit>>
       \/ /\ \E e \in FetchErrors : Raise(e, "fetch", 1)
          /\ UNCHANGED <<recipe, reviews>>
    /\ UNCHANGED <<pure, prog, args, env, inStep, content, attempts, errs, sleeps,
                   request, called, prevStage, prevReply, ran>>
    /\ UNCHANGED StreamVars /\ UNCHANGED OutVars

(***************************************************************************)
(* src/main.py: run_pipeline_step (lines 284-309), one action per attempt. *)
(***************************************************************************)
\* lines 285-288 : serialise a dict, build the client, attempts = 0
EnterStep ==
    /\ prog = "batch" /\ pc \in BatchStages /\ ~inStep
    /\ IF env.apiKey
       THEN /\ inStep' = TRUE
            /\ content' = IF IsDict(recipe) THEN Dumps(recipe) ELSE recipe
            /\ attempts' = 0
            /\ errs' = <<>>
            /\ sleeps' = 0
            /\ UNCHANGED <<pc, failure, exit>>
       ELSE /\ Raise("KeyError", "config", 1)      \* os.environ['OPENAI_API_KEY']
            /\ UNCHANGED <<inStep, content, attempts, errs, sleeps>>
    /\ UNCHANGED <<pure, prog, args, env, recipe, reviews, request, called, fetched,
                   prevStage, prevReply, ran>>
    /\ UNCHANGED StreamVars /\ UNCHANGED OutVars

\* line 289 : while attempts < 3
LoopContinues(n) == n < MaxAttempts

\* line 305 : if attempts == 3
Exhausted_Early(n) == n = MaxAttempts - 1
Exhausted(n) == n = MaxAttempts

\* line 307 : raise e, the exception of the attempt that just failed
RaisedError_First(caught) == caught[1]
RaisedError(caught) == caught[Len(caught)]

\* messages whose user content, on a retry, is the text of the caught error
Messages_AfterError(s, a, rv, user) ==
    [system |-> Prompt(s, a, rv), user |-> IF errs # <<>> THEN Malformed ELSE user]

\* line 293 : the messages of the request
Messages(s, a, rv, user) == [system |-> Prompt(s, a, rv), user |-> user]

\* line 696 : recipe['ingredient_groups'] = updated_ingredient_groups['ingredient_groups']
MergeIngredients_Dropped(rec, result) == rec
MergeIngredients(rec, result) ==
    SetKey(rec, "ingredient_groups", result.ingredient_groups)

\* a merge that takes the whole result of the instructions stage as the recipe
MergeInstructions_Whole(rec, result) == result

\* line 699 : recipe['instruction_groups'] = updated_instruction_groups['instruction_groups']
MergeInstructions(rec, result) ==
    SetKey(rec, "instruction_groups", result.instruction_groups)

\* line 725 : recipe['reviews'] = recipe_reviews.get('paragraphs', [])
MergeTips(rec, result) == SetKey(rec, "reviews", Get(result, "paragraphs", <<>>))

\* main's merge of a stage's result into `recipe`; ok is FALSE when the
\* subscript on the result raises KeyError
Merge(s, rec, result) ==
    CASE s \in WholeStages -> [ok |-> TRUE, recipe |-> result]
      [] s = "norm_ingr" ->
            IF "ingredient_groups" \in DOMAIN result
            THEN [ok |-> TRUE, recipe |-> MergeIngredients(rec, result)]
            ELSE [ok |-> FALSE, recipe |-> rec]
      [] s = "norm_instr" ->
            IF "instruction_groups" \in DOMAIN result
            THEN [ok |-> TRUE, recipe |-> MergeInstructions(rec, result)]
            ELSE [ok |-> FALSE, recipe |-> rec]
      [] s = "tips" -> [ok |-> TRUE, recipe |-> MergeTips(rec, result)]

\* line 309 and the statement of main that receives the value: json.loads of
\* the text c, then the stage's merge
ReturnToMain(c) ==
    IF ~IsJson(c)
    THEN /\ Raise("JSONDecodeError", "response", 1)
         /\ UNCHANGED <<recipe, prevStage, prevReply, ran>>
    ELSE LET m == Merge(pc, recipe, Loads(c))
         IN IF m.ok
            THEN /\ recipe' = m.recipe
                 /\ pc' = AfterStage(pc, args, reviews)
                 /\ prevStage' = pc
                 /\ prevReply' = Loads(c)
                 /\ ran' = Append(ran, pc)
                 /\ UNCHANGED <<failure, exit>>
            ELSE /\ Raise("KeyError", "response", 1)
                 /\ UNCHANGED <<recipe, prevStage, prevReply, ran>>

\* lines 290-300, 309 : the call returns content c; break; json.loads
AttemptReturns ==
    /\ prog = "batch" /\ inStep /\ LoopContinues(attempts)
    /\ \E c \in Contents :
        /\ attempts' = attempts + 1
        /\ request' = Some(Messages(pc, args, reviews, content))
        /\ called' = TRUE
        /\ content' = c
        /\ inStep' = FALSE
        /\ errs' = <<>>
        /\ ReturnToMain(c)
    /\ UNCHANGED <<pure, prog, args, env, reviews, sleeps, fetched>>
    /\ UNCHANGED StreamVars /\ UNCHANGED OutVars

\* what a failed call raises inside the try block
CallErrors == {"APITimeoutError", "APIConnectionError"}

\* lines 290-298, 301-308 : the call raises; sleep; raise on the third attempt,
\* else back to the loop test (and to line 309 when the test fails)
AttemptFails ==
    /\ prog = "batch" /\ inStep /\ LoopContinues(attempts)
    /\ \E e \in CallErrors :
        /\ attempts' = attempts + 1
        /\ request' = Some(Messages(pc, args, reviews, content))
        /\ called' = TRUE
        /\ errs' = Append(errs, e)
        /\ sleeps' = sleeps + 1
        /\ IF Exhausted(attempts')
           THEN /\ Raise(RaisedError(errs'), "service", 1)
                /\ inStep' = FALSE
                /\ UNCHANGED <<recipe, prevStage, prevReply, ran>>
           ELSE IF LoopContinues(attempts')
           THEN /\ UNCHANGED <<pc, failure, exit, inStep, recipe, prevStage,
                               prevReply, ran>>
           ELSE /\ inStep' = FALSE
                /\ ReturnToMain(content)
    /\ UNCHANGED <<pure, prog, args, env, reviews, content, fetched>>
    /\ UNCHANGED StreamVars /\ UNCHANGED OutVars

\* Ctrl-C during the call or the sleep: KeyboardInterrupt is not an Exception,
\* so line 301 does not catch it
AttemptInterrupted ==
    /\ prog = "batch" /\ inStep /\ LoopContinues(attempts)
    /\ attempts' = attempts + 1
    /\ request' = Some(Messages(pc, args, reviews, content))
    /\ called' = TRUE
    /\ inStep' = FALSE
    /\ Raise("KeyboardInterrupt", "interrupt", 130)
    /\ UNCHANGED <<pure, prog, args, env, recipe, reviews, content, errs, sleeps,
                   fetched, prevStage, prevReply, ran>>
    /\ UNCHANGED StreamVars /\ UNCHANGED OutVars

(***************************************************************************)
(* src/main.py: group-title clearing, source and scale (lines 739-746).    *)
(***************************************************************************)
\* a clearing that drops the lone group instead of clearing its title
ClearSingleTitle_Drop(groups) ==
    IF Len(groups) >= 1 THEN Tail(groups) ELSE groups

\* lines 739-743 : a list of exactly one group gets that group's title cleared
ClearSingleTitle(groups) ==
    IF Len(groups) = 1 THEN <<SetKey(groups[1], "title", "")>> ELSE groups

\* lines 739-743 : the clearing applied to both group lists of a recipe
ClearTitles(rec) ==
    SetKey(SetKey(rec,
        "ingredient_groups", ClearSingleTitle(rec.ingredient_groups)),
        "instruction_groups", ClearSingleTitle(rec.instruction_groups))

\* a stamping that keeps the source and the scale a recipe already has
SourceAndScale_Default(rec, a) ==
    SetKey(SetKey(rec, "source", Get(rec, "source", a.url)),
           "scale", Get(rec, "scale", a.scale))

\* lines 745-746 : recipe['source'] = args.url ; recipe['scale'] = args.scale
SourceAndScale(rec, a) == SetKey(SetKey(rec, "source", a.url), "scale", a.scale)

Finish ==
    /\ prog = "batch" /\ pc = "finish"
    /\ IF {"ingredient_groups", "instruction_groups"} \subseteq DOMAIN recipe
       THEN /\ recipe' = SourceAndScale(ClearTitles(recipe), args)
            /\ pc' = "write"
            /\ ran' = Append(ran, "finish")
            /\ UNCHANGED <<failure, exit>>
       ELSE /\ Raise("KeyError", "main", 1)
            /\ UNCHANGED <<recipe, ran>>
    /\ UNCHANGED <<pure, prog, args, env, reviews, inStep, content, attempts, errs,
                   sleeps, request, called, fetched, prevStage, prevReply>>
    /\ UNCHANGED StreamVars /\ UNCHANGED OutVars

(***************************************************************************)
(* Paths.  A path is a sequence of tokens: "." and "/" stand for those     *)
(* characters, every other token is a run of characters without them.      *)
(***************************************************************************)
RECURSIVE JoinTokens(_)
JoinTokens(toks) ==
    IF toks = <<>> THEN "" ELSE Head(toks) \o JoinTokens(Tail(toks))

\* index of the last occurrence of tok in toks, 0 when there is none
LastIndexOf(toks, tok) ==
    LET at == {i \in DOMAIN toks : toks[i] = tok}
    IN IF at = {} THEN 0 ELSE CHOOSE i \in at : \A j \in at : j <= i

\* os.path.splitext(path)[1][1:] : the text after the last dot of the last
\* component, unless only dots precede that dot in the component
SplitExt(path) ==
    LET sep == LastIndexOf(path, "/")
        dot == LastIndexOf(path, ".")
    IN IF dot > sep /\ \E i \in (sep + 1)..(dot - 1) : path[i] # "."
       THEN JoinTokens(SubSeq(path, dot + 1, Len(path)))
       ELSE ""

(***************************************************************************)
(* src/main.py: write_output (lines 619-642).                              *)
(***************************************************************************)
\* Python truthiness of an optional string
Truthy(o) == ~IsNone(o) /\ Val(o) # ""

\* lines 624-631 : the renderer chosen for a format
RendererOf(fmt) ==
    CASE fmt = "tex" -> "json_to_latex"
      [] fmt = "json" -> "json.dumps"
      [] fmt = "pdf" -> "generate_pdf"
      [] OTHER -> "recipe_to_markdown"

\* lines 609-611 of recipe_to_markdown : `md += reviews` with a non-empty list
MarkdownRaises(rec) == Get(rec, "reviews", <<>>) # <<>>

\* lines 620-622 : the local `fmt`; None when os.path.splitext(None) raises
ResolveFormat(a) ==
    IF Truthy(a.format) THEN Some(Val(a.format))
    ELSE IF IsNone(a.output) THEN None
    ELSE Some(SplitExt(Val(a.output)))

WriteOutput ==
    /\ prog = "batch" /\ pc = "write"
    /\ outFormat' = ResolveFormat(args)
    /\ IF IsNone(ResolveFormat(args))
       THEN /\ Raise("TypeError", "output", 1)  \* os.path.splitext(None)
            /\ UNCHANGED <<fileOpens, fileWrites, stdoutWrites>>
       ELSE LET fmt == Val(ResolveFormat(args))
                renderer == RendererOf(fmt)
                written ==
                    /\ IF Truthy(args.output)
                       THEN /\ fileOpens' = fileOpens + 1
                            /\ fileWrites' = fileWrites + 1
                            /\ UNCHANGED stdoutWrites
                       ELSE /\ stdoutWrites' = stdoutWrites + 1
                            /\ UNCHANGED <<fileOpens, fileWrites>>
                    /\ pc' = "done"
                    /\ exit' = Some(0)
                    /\ UNCHANGED failure
                unwritten == UNCHANGED <<fileOpens, fileWrites, stdoutWrites>>
            IN CASE renderer = "recipe_to_markdown" /\ MarkdownRaises(recipe) ->
                        Raise("TypeError", "render", 1) /\ unwritten
                 [] renderer = "generate_pdf" ->
                        \/ written
                        \/ Raise("FileNotFoundError", "render", 1) /\ unwritten
                 [] OTHER -> written
    /\ UNCHANGED <<pure, prog, args, env, recipe, reviews, inStep, content, attempts,
                   errs, sleeps, request, called, fetched, prevStage, prevReply, ran>>
    /\ UNCHANGED StreamVars

(***************************************************************************)
(* src/src/recipe_formatter: the values of the streaming program.          *)
(***************************************************************************)
MaxStream == 2

\* SimpleRecipe, GroupedRecipe (main.py lines 37-46) and recipy's Recipe
SimpleRecipe(t, ingr, instr) ==
    [shape |-> "SimpleRecipe", title |-> t, ingredients |-> ingr, instructions |-> instr]

GroupedRecipe(t, igs, sgs) ==
    [shape |-> "GroupedRecipe", title |-> t, ingredient_groups |-> igs,
     instruction_groups |-> sgs]

FullRecipe(t, igs, sgs) ==
    [shape |-> "Recipe", title |-> t, description |-> None, ingredient_groups |-> igs,
     instruction_groups |-> sgs]

\* IngredientGroup(name=..., ingredients=...), InstructionGroup(name=..., instructions=...)
NamedIGroup(n, items) == [name |-> n, ingredients |-> items]
NamedSGroup(n, items) == [name |-> n, instructions |-> items]

\* IngredientList, InstructionList (main.py lines 29-34)
IngredientList(items) == [shape |-> "IngredientList", ingredients |-> items]
InstructionList(items) == [shape |-> "InstructionList", instructions |-> items]

\* line 94 : [i for ig in groups for i in ig.ingredients] (or .instructions)
RECURSIVE FlattenItems(_, _)
FlattenItems(groups, field) ==
    IF groups = <<>> THEN <<>>
    ELSE Head(groups)[field] \o FlattenItems(Tail(groups), field)

\* `recipe` before recipe_from_url has returned, and a None left by a stage
NoRecipe == [shape |-> "None"]

\* the stages of the streaming main in program order (lines 93-189)
StreamOrder == <<"s_convert", "s_norm_ingr", "s_norm_instr", "s_revise", "s_group">>

StreamStages == {StreamOrder[i] : i \in DOMAIN StreamOrder}

\* the response_model each stage passes to query
ResponseModel(s) ==
    CASE s = "s_convert" -> "SimpleRecipe"
      [] s = "s_norm_ingr" -> "IngredientList"
      [] s = "s_norm_instr" -> "InstructionList"
      [] s = "s_revise" -> "Recipe"
      [] s = "s_group" -> "GroupedRecipe"

\* the objects a response stream of instructor.Partial[model] may yield: a
\* partial object and complete ones
StreamObjects(model) ==
    CASE model = "SimpleRecipe" ->
            {SimpleRecipe("Cake", <<>>, <<>>),
             SimpleRecipe("Cake", <<"1 c flour">>, <<"Mix it.">>)}
      [] model = "IngredientList" ->
            {IngredientList(<<>>), IngredientList(<<"1 cup flour">>)}
      [] model = "InstructionList" ->
            {InstructionList(<<>>), InstructionList(<<"Mix.">>)}
      [] model = "Recipe" ->
            {FullRecipe("Cake", <<>>, <<>>),
             FullRecipe("Honey Cake",
                        <<NamedIGroup(None, <<"1 cup honey">>)>>,
                        <<NamedSGroup(None, <<"Mix.">>)>>)}
      [] model = "GroupedRecipe" ->
            {GroupedRecipe("Cake", <<>>, <<>>),
             GroupedRecipe("Cake",
                           <<NamedIGroup(Some("For the Cake"), <<"1 cup flour">>)>>,
                           <<NamedSGroup(Some("Making the Cake"), <<"Mix.">>)>>),
             GroupedRecipe("Cake",
                           <<NamedIGroup(Some("For the Cake"), <<"1 cup flour">>),
                             NamedIGroup(Some("For the Icing"), <<"sugar">>)>>,
                           <<NamedSGroup(Some("Making the Cake"), <<"Mix.">>),
                             NamedSGroup(Some("Making the Icing"), <<"Whisk.">>)>>)}

\* what recipe_from_url may return: a Recipe read from the page's metadata,
\* the page text, or nothing usable
UrlResults ==
    {FullRecipe("Cake", <<NamedIGroup(None, <<"1 c flour">>)>>,
                        <<NamedSGroup(None, <<"Mix it.">>)>>),
     [shape |-> "str", text |-> "page"],
     NoRecipe}

\* the `if` that guards each stage of the streaming main after the conversion
\* (which runs when recipe_from_url returned text)
StreamStageEnabled(s, a) ==
    CASE s = "s_convert" -> FALSE
      [] s \in {"s_norm_ingr", "s_norm_instr"} -> a.normalize
      [] s = "s_revise" -> Truthy(a.revisions)
      [] s = "s_group" -> a.group

StreamIndex(s) == CHOOSE i \in DOMAIN StreamOrder : StreamOrder[i] = s

\* where the streaming main goes after stage s (0 : after recipe_from_url),
\* "s_shape" being lines 191-208
AfterStreamStage(i, a) ==
    LET later == {j \in DOMAIN StreamOrder :
                    j > i /\ StreamStageEnabled(StreamOrder[j], a)}
    IN IF later = {} THEN "s_shape"
       ELSE StreamOrder[CHOOSE j \in later : \A k \in later : j <= k]

(***************************************************************************)
(* src/src/recipe_formatter/main.py: configuration and fetch (69-107).     *)
(***************************************************************************)
\* lines 73-79 : the engine and its key
Preflight ==
    /\ prog = "stream" /\ pc = "preflight"
    /\ IF env.engine # "openai"
       THEN Raise("ValueError", "config", 1)      \* Unsupported engine
       ELSE IF ~env.apiKey
       THEN Raise("ValueError", "config", 1)      \* OpenAI API key not found
       ELSE pc' = "s_fetch" /\ UNCHANGED <<failure, exit>>
    /\ UNCHANGED <<pure, prog, args, env, recipe, reviews, inStep, content, attempts, errs,
                   sleeps, request, called, fetched, prevStage, prevReply, ran>>
    /\ UNCHANGED StreamVars /\ UNCHANGED OutVars

\* lines 91-95, 106-107 : recipe_from_url and the flattening of a Recipe
StreamFetch ==
    /\ prog = "stream" /\ pc = "s_fetch"
    /\ fetched' = TRUE
    /\ \/ \E r \in UrlResults :
            CASE r.shape = "Recipe" ->
                    /\ recipe' = SimpleRecipe(r.title,
                                     FlattenItems(r.ingredient_groups, "ingredients"),
                                     FlattenItems(r.instruction_groups, "instructions"))
                    /\ pc' = AfterStreamStage(0, args)
                    /\ UNCHANGED <<failure, exit>>
              [] r.shape = "str" ->
                    /\ recipe' = r
                    /\ pc' = "s_convert"
                    /\ UNCHANGED <<failure, exit>>
              [] OTHER ->
                    /\ Raise("ValueError", "main", 1)   \* Invalid recipe type
                    /\ UNCHANGED recipe
       \/ /\ Raise("HTTPError", "fetch", 1)
          /\ UNCHANGED recipe
    /\ UNCHANGED <<pure, prog, args, env, reviews, inStep, content, attempts, errs,
                   sleeps, request, called, prevStage, prevReply, ran>>
    /\ UNCHANGED StreamVars /\ UNCHANGED OutVars

(***************************************************************************)
(* The handlers' query / _generate_stream (openai_handler.py lines 16-31,  *)
(* llama_cpp_handler.py lines 27-41) as main calls it, one action per      *)
(* object of the response stream.  main calls llm.query on an              *)
(* OpenAIModelHandler, whose streaming method is named _generate_stream;   *)
(* LlamaCppModelHandler.query has the same body.  llm.query is taken to    *)
(* be that body.                                                           *)
(***************************************************************************)
\* what main interpolates into the prompt of each stage
PromptBody(s, a, rec) ==
    CASE s = "s_convert" -> [text |-> rec.text]
      [] s = "s_norm_ingr" -> [ingredients |-> rec.ingredients]
      [] s = "s_norm_instr" -> [instructions |-> rec.instructions]
      [] s = "s_revise" -> [revisions |-> a.revisions, recipe |-> rec]
      [] s = "s_group" -> [recipe |-> rec]

\* lines 166-169 : the GroupedRecipe built before the group query
SingleGroups(rec) ==
    GroupedRecipe(rec.title,
                  <<NamedIGroup(None, rec.ingredients)>>,
                  <<NamedSGroup(None, rec.instructions)>>)

\* the call of llm.query for the stage at pc, up to the return of create()
Query ==
    /\ prog = "stream" /\ pc \in StreamStages /\ ~inStep
    /\ IF pc = "s_group" /\ recipe.shape # "SimpleRecipe"
       THEN /\ Raise("AttributeError", "main", 1)    \* recipe.ingredients
            /\ UNCHANGED <<recipe, inStep, attempts, request, called>>
            /\ UNCHANGED StreamVars
       ELSE LET rec == IF pc = "s_group" THEN SingleGroups(recipe) ELSE recipe
            IN /\ recipe' = rec
               /\ request' = Some([user |-> [stage |-> pc, body |-> PromptBody(pc, args, rec)]])
               /\ called' = TRUE
               /\ attempts' = 1
               /\ inStep' = TRUE
               /\ yielded' = 0
               /\ lastYielded' = None
               /\ final_obj' = None
               /\ UNCHANGED <<pc, failure, exit>>
    /\ UNCHANGED <<pure, prog, args, env, reviews, content, errs, sleeps, fetched,
                   prevStage, prevReply, ran>>
    /\ UNCHANGED OutVars

\* the request fails: create() or the iteration of the response stream raises
\* (timeout, transport failure, a response instructor rejects); nothing in
\* the handler or in main catches it
QueryFails ==
    /\ prog = "stream" /\ inStep /\ yielded < MaxStream
    /\ \E e \in CallErrors \cup {"ValidationError"} : Raise(e, "service", 1)
    /\ inStep' = FALSE
    /\ UNCHANGED <<pure, prog, args, env, recipe, reviews, content, attempts, errs, sleeps,
                   request, called, fetched, prevStage, prevReply, ran>>
    /\ UNCHANGED StreamVars /\ UNCHANGED OutVars

\* Ctrl-C while the stream is read
QueryInterrupted ==
    /\ prog = "stream" /\ inStep /\ yielded < MaxStream
    /\ Raise("KeyboardInterrupt", "interrupt", 130)
    /\ inStep' = FALSE
    /\ UNCHANGED <<pure, prog, args, env, recipe, reviews, content, attempts, errs, sleeps,
                   request, called, fetched, prevStage, prevReply, ran>>
    /\ UNCHANGED StreamVars /\ UNCHANGED OutVars

\* the assignments the stage's callback makes to `recipe` for the object data
\* (main.py lines 102, 110-112, 126-128, 150-153, 171-178); without --verbose
\* the callback is `lambda data: None`
CallbackEffect(s, verbose, rec, data) ==
    CASE ~verbose -> rec
      [] s = "s_convert" -> rec
      [] s = "s_norm_ingr" -> SetKey(rec, "ingredients", data.ingredients)
      [] s = "s_norm_instr" -> SetKey(rec, "instructions", data.instructions)
      [] s = "s_revise" -> rec        \* data.ingredients raises before the assignment
      [] s = "s_group" ->
            LET r1 == IF data.ingredient_groups # <<>>
                      THEN SetKey(rec, "ingredient_groups", data.ingredient_groups)
                      ELSE rec
            IN IF data.instruction_groups # <<>>
               THEN SetKey(r1, "instruction_groups", data.instruction_groups)
               ELSE r1

\* how the callback can end: revise_update reads data.ingredients, which a
\* Recipe does not have; the other callbacks end in update_live, whose
\* serialisation may raise the ValidationError the handler expects
CallbackOutcomes(s, verbose) ==
    CASE ~verbose -> {"ok"}
      [] s = "s_revise" -> {"AttributeError"}
      [] OTHER -> {"ok", "ValidationError"}

\* the handler's `except ValidationError`
Caught(outcome) == outcome = "ValidationError"

\* lines 25-30 : the stream yields an object; callback(response); final_obj
StreamYield ==
    /\ prog = "stream" /\ inStep /\ yielded < MaxStream
    /\ \E obj \in StreamObjects(ResponseModel(pc)),
          outcome \in CallbackOutcomes(pc, args.verbose) :
        /\ yielded' = yielded + 1
        /\ lastYielded' = Some(obj)
        /\ recipe' = CallbackEffect(pc, args.verbose, recipe, obj)
        /\ IF outcome = "ok"
           THEN /\ final_obj' = Some(obj)
                /\ UNCHANGED <<pc, failure, exit, inStep>>
           ELSE IF Caught(outcome)
           THEN UNCHANGED <<final_obj, pc, failure, exit, inStep>>
           ELSE /\ Raise(outcome, "callback", 1)
                /\ inStep' = FALSE
                /\ UNCHANGED final_obj
    /\ UNCHANGED <<pure, prog, args, env, reviews, content, attempts, errs, sleeps,
                   request, called, fetched, prevStage, prevReply, ran>>
    /\ UNCHANGED OutVars

\* what main does with the value query returns (lines 96-105, 114, 130, 155, 180)
Assigned(s, rec, result) ==
    CASE s \in {"s_norm_ingr", "s_norm_instr"} -> rec     \* the value is dropped
      [] OTHER -> IF IsNone(result) THEN NoRecipe ELSE Val(result)

\* line 31 : the stream is exhausted, query returns final_obj to main
StreamEnd ==
    /\ prog = "stream" /\ inStep
    /\ inStep' = FALSE
    /\ IF pc = "s_convert" /\ IsNone(final_obj)
       THEN /\ Raise("ValueError", "main", 1)     \* Failed to convert recipe to JSON
            /\ UNCHANGED <<recipe, prevStage, prevReply, ran>>
       ELSE /\ recipe' = Assigned(pc, recipe, final_obj)
            /\ pc' = AfterStreamStage(StreamIndex(pc), args)
            /\ prevStage' = pc
            /\ prevReply' = IF IsNone(final_obj) THEN NoRecipe ELSE Val(final_obj)
            /\ ran' = Append(ran, pc)
            /\ UNCHANGED <<failure, exit>>
    /\ UNCHANGED <<pure, prog, args, env, reviews, content, attempts, errs, sleeps,
                   request, called, fetched>>
    /\ UNCHANGED StreamVars /\ UNCHANGED OutVars

(***************************************************************************)
(* src/src/recipe_formatter/main.py: lines 191-239.                        *)
(***************************************************************************)
\* lines 195-208 : every shape becomes a Recipe
AsRecipe(rec) ==
    CASE rec.shape = "SimpleRecipe" ->
            FullRecipe(rec.title,
                       <<NamedIGroup(None, rec.ingredients)>>,
                       <<NamedSGroup(None, rec.instructions)>>)
      [] rec.shape = "GroupedRecipe" ->
            FullRecipe(rec.title, rec.ingredient_groups, rec.instruction_groups)
      [] OTHER -> rec

ShapeRecipe ==
    /\ prog = "stream" /\ pc = "s_shape"
    /\ recipe' = AsRecipe(recipe)
    /\ pc' = "s_output"
    /\ ran' = Append(ran, "s_shape")
    /\ UNCHANGED <<pure, prog, args, env, reviews, inStep, content, attempts, errs, sleeps,
                   request, called, fetched, prevStage, prevReply, failure, exit>>
    /\ UNCHANGED StreamVars /\ UNCHANGED OutVars

\* output_path.split('.')[-1]
LastDotPart(path) ==
    JoinTokens(SubSeq(path, LastIndexOf(path, ".") + 1, Len(path)))

\* line 220 : the formats the streaming main accepts for an inferred format
SupportedFormats == {"md", "tex", "pdf", "json"}

\* lines 215-219 : the local `output_format`
StreamFormat(a) ==
    IF IsNone(a.format) /\ IsNone(a.output) THEN "json"
    ELSE IF IsNone(a.format) THEN LastDotPart(Val(a.output))
    ELSE Val(a.format)

StreamOutput ==
    /\ prog = "stream" /\ pc = "s_output"
    /\ LET needsTitle == ~IsNone(args.output) /\ \E i \in DOMAIN Val(args.output) :
                             Val(args.output)[i] = "{title}"
           inferred == IsNone(args.format) /\ ~IsNone(args.output)
           fmt == StreamFormat(args)
           finished == pc' = "done" /\ exit' = Some(0) /\ UNCHANGED failure
           unwritten == UNCHANGED <<fileOpens, fileWrites, stdoutWrites>>
       IN CASE needsTitle /\ recipe = NoRecipe ->      \* line 211 : recipe.title
                    Raise("AttributeError", "output", 1) /\ UNCHANGED OutVars
            [] OTHER ->
                /\ outFormat' = Some(fmt)
                /\ IF inferred /\ fmt \notin SupportedFormats
                   THEN finished /\ unwritten       \* lines 221-222 : print, return
                   ELSE IF fmt \in SupportedFormats /\ recipe = NoRecipe
                   THEN Raise("AttributeError", "render", 1) /\ unwritten
                   ELSE IF fmt \in SupportedFormats
                   THEN \/ /\ IF IsNone(args.output)
                              THEN /\ stdoutWrites' = stdoutWrites + 1
                                   /\ UNCHANGED <<fileOpens, fileWrites>>
                              ELSE /\ fileOpens' = fileOpens + 1
                                   /\ fileWrites' = fileWrites + 1
                                   /\ UNCHANGED stdoutWrites
                           /\ finished
                        \/ /\ fmt = "pdf"
                           /\ Raise("CalledProcessError", "render", 1)
                           /\ unwritten
                   ELSE \* output_data is None: open() succeeds, write(None) raises
                        /\ Raise("TypeError", "output", 1)
                        /\ IF IsNone(args.output)
                           THEN unwritten
                           ELSE /\ fileOpens' = fileOpens + 1
                                /\ UNCHANGED <<fileWrites, stdoutWrites>>
    /\ UNCHANGED <<pure, prog, args, env, recipe, reviews, inStep, content, attempts, errs,
                   sleeps, request, called, fetched, prevStage, prevReply, ran>>
    /\ UNCHANGED StreamVars

(***************************************************************************)
(* The runs of the model.                                                  *)
(***************************************************************************)
\* -o values: absent, and paths with a known, an unknown and no extension
Outputs ==
    {None, Some(<<"out", ".", "md">>), Some(<<"out", ".", "json">>),
     Some(<<"{title}", ".", "tex">>), Some(<<"out", ".", "docx">>), Some(<<"out">>)}

\* the (format, output) pairs the output step is exercised with
FormatOutputPairs ==
    {<<None, None>>} \cup
    {<<f, None>> : f \in {Some("json"), Some("docx")}} \cup
    {<<None, o>> : o \in Outputs \ {None}} \cup
    {<<Some("md"), Some(<<"out", ".", "md">>)>>,
     <<Some("pdf"), Some(<<"out", ".", "json">>)>>,
     <<Some("docx"), Some(<<"out", ".", "md">>)>>,
     <<Some("tex"), Some(<<"out">>)>>}

\* the (format, output) pairs every combination of stage flags is run with
PipelinePairs == {<<None, Some(<<"out", ".", "md">>)>>, <<Some("json"), None>>}

BatchFlags ==
    [normalize : BOOLEAN, tips : BOOLEAN, group : BOOLEAN, scale : {1, 2},
     revise : {None, Some("less sugar")}]

\* the stage flags every (format, output) pair is run with
OutputFlags ==
    {[normalize |-> FALSE, tips |-> t, group |-> FALSE, scale |-> 1, revise |-> None]
        : t \in BOOLEAN}

\* the command lines of src/main.py: every combination of stage flags, and
\* every (format, output) pair
BatchArgs ==
    {[url |-> "http://example.com/cake", format |-> fo[1], output |-> fo[2],
      normalize |-> fl.normalize, tips |-> fl.tips, group |-> fl.group,
      scale |-> fl.scale, revise |-> fl.revise]
        : <<fl, fo>> \in (BatchFlags \X PipelinePairs) \cup (OutputFlags \X FormatOutputPairs)}

StreamFlags ==
    [normalize : BOOLEAN, group : BOOLEAN, revisions : {None, Some("use honey")},
     verbose : BOOLEAN]

\* the stage flags every (format, output) pair is run with
StreamOutputFlags ==
    {[normalize |-> FALSE, group |-> g, revisions |-> None, verbose |-> FALSE]
        : g \in BOOLEAN}

\* the command lines of the streaming main
StreamArgs ==
    {[url |-> "http://example.com/cake", format |-> fo[1], output |-> fo[2],
      normalize |-> fl.normalize, group |-> fl.group, revisions |-> fl.revisions,
      verbose |-> fl.verbose]
        : <<fl, fo>> \in (StreamFlags \X PipelinePairs)
                         \cup (StreamOutputFlags \X FormatOutputPairs)}

\* OPENAI_API_KEY in the environment (src/main.py)
Envs == {[apiKey |-> k] : k \in BOOLEAN}

\* the configuration file and the environment of the streaming main
StreamEnvs == {[engine |-> e, apiKey |-> k] : e \in {"openai", "llama"}, k \in BOOLEAN}

\* no pure function is under study in a run of either program
Idle == [fn |-> "none"]

InitCommon ==
    /\ reviews = <<>>
    /\ inStep = FALSE
    /\ content = RawText
    /\ attempts = 0
    /\ errs = <<>>
    /\ sleeps = 0
    /\ request = None
    /\ called = FALSE
    /\ fetched = FALSE
    /\ prevStage = "none"
    /\ prevReply = RawText
    /\ ran = <<>>
    /\ yielded = 0
    /\ lastYielded = None
    /\ final_obj = None
    /\ failure = None
    /\ fileOpens = 0
    /\ fileWrites = 0
    /\ stdoutWrites = 0
    /\ outFormat = None
    /\ exit = None

InitBatch ==
    /\ prog = "batch"
    /\ args \in BatchArgs
    /\ env \in Envs
    /\ pc = "fetch"
    /\ recipe = RawText
    /\ pure = Idle
    /\ InitCommon

InitStream ==
    /\ prog = "stream"
    /\ args \in StreamArgs
    /\ env \in StreamEnvs
    /\ pc = "preflight"
    /\ recipe = NoRecipe
    /\ pure = Idle
    /\ InitCommon

Init == InitBatch \/ InitStream

NextBatch ==
    \/ Fetch
    \/ EnterStep
    \/ AttemptReturns
    \/ AttemptFails
    \/ AttemptInterrupted
    \/ Finish
    \/ WriteOutput

NextStream ==
    \/ Preflight
    \/ StreamFetch
    \/ Query
    \/ QueryFails
    \/ QueryInterrupted
    \/ StreamYield
    \/ StreamEnd
    \/ ShapeRecipe
    \/ StreamOutput

Next == NextBatch \/ NextStream

Spec == Init /\ [][Next]_vars

(***************************************************************************)
(* The functions of src/main.py studied on their own.  A call is the       *)
(* record `pure`: the function, its argument, and the values returned by   *)
(* applying the function to the argument and then to its own result.       *)
(***************************************************************************)
PipelineVars ==
    <<prog, args, env, pc, recipe, reviews, inStep, content, attempts, errs,
      sleeps, request, called, fetched, prevStage, prevReply, ran, yielded,
      lastYielded, final_obj, failure, fileOpens, fileWrites, stdoutWrites,
      outFormat, exit>>

\* neither program runs while a function is studied
InitQuiet ==
    /\ prog = "none"
    /\ args = [url |-> "http://example.com/cake"]
    /\ env = [apiKey |-> TRUE]
    /\ pc = "call"
    /\ recipe = NoRecipe
    /\ InitCommon

Call(f, x) == [fn |-> f, arg |-> x, results |-> <<>>]

\* the value the next application takes: the argument, then the last result
Operand == IF pure.results = <<>> THEN pure.arg ELSE pure.results[Len(pure.results)]

\* function f is under study and was applied fewer than n times
CanApply(f, n) == pure.fn = f /\ Len(pure.results) < n

\* the call once the application returned v
Returned(v) == [pure EXCEPT !.results = Append(@, v)]

\* ---- lines 739-743 : the clearing of lone group titles ----
MaxGroups == 2

GroupTitles == {"", "For the Cake"}

RECURSIVE GroupLists(_, _)
\* the lists of at most n groups drawn from the set groups
GroupLists(groups, n) ==
    IF n = 0 THEN {<<>>}
    ELSE GroupLists(groups, n - 1)
         \cup {Append(l, g) : l \in {k \in GroupLists(groups, n - 1) : Len(k) = n - 1},
                              g \in groups}

\* the recipes main may hold when the pipeline has ended
PipelineRecipes ==
    {[title |-> "Cake", ingredient_groups |-> igs, instruction_groups |-> sgs]
        : igs \in GroupLists({IGroup(t, i) : t \in GroupTitles,
                                             i \in {<<>>, <<"flour">>}}, MaxGroups),
          sgs \in GroupLists({SGroup(t, i) : t \in GroupTitles,
                                             i \in {<<>>, <<"mix">>}}, MaxGroups)}

ClearTitlesCall ==
    /\ CanApply("clear_titles", 2)
    /\ pure' = Returned(ClearTitles(Operand))
    /\ UNCHANGED PipelineVars

\* ---- escape_latex (lines 386-401) ----
\* A text is a sequence of characters, each a one-character string; a
\* character outside ASCII is written as its code point, "U+2044".
\* lines 387-400 : the dict `mapping`
LatexMapping ==
    [c \in {"&", "%", "$", "#", "_", "{", "}", "~", "^", "\\", "<", ">"} |->
        CASE c = "&" -> <<"\\", "&">>
          [] c = "%" -> <<"\\", "%">>
          [] c = "$" -> <<"\\", "$">>
          [] c = "#" -> <<"\\", "#">>
          [] c = "_" -> <<"\\", "_">>
          [] c = "{" -> <<"\\", "{">>
          [] c = "}" -> <<"\\", "}">>
          [] c = "~" -> <<"\\", "t", "e", "x", "t", "a", "s", "c", "i", "i",
                          "t", "i", "l", "d", "e", "{", "}">>
          [] c = "^" -> <<"\\", "^", "{", "}">>
          [] c = "\\" -> <<"\\", "t", "e", "x", "t", "b", "a", "c", "k", "s", "l", "a",
                           "s", "h", "{", "}">>
          [] c = "<" -> <<"\\", "t", "e", "x", "t", "l", "e", "s", "s", "{", "}">>
          [] c = ">" -> <<"\\", "t", "e", "x", "t", "g", "r", "e", "a", "t", "e", "r",
                          "{", "}">>]

\* a lookup that lets the percent sign through
EscapeChar_Bare(c) ==
    IF c \in DOMAIN LatexMapping /\ c # "%" THEN LatexMapping[c] ELSE <<c>>

\* line 401 : mapping.get(c, c)
EscapeChar(c) ==
    IF c \in DOMAIN LatexMapping THEN LatexMapping[c] ELSE <<c>>

\* line 401 : "".join(mapping.get(c, c) for c in text)
RECURSIVE escape_latex(_)
escape_latex(text) ==
    IF text = <<>> THEN <<>>
    ELSE EscapeChar(Head(text)) \o escape_latex(Tail(text))

MaxText == 2

\* the characters texts are drawn from: the twelve of the mapping, letters,
\* digits, the space, the quotation mark, and the fraction slash, the degree
\* sign and the multiplication sign
Alphabet ==
    DOMAIN LatexMapping \cup {"5", "0", " ", "o", "f", "\"", "U+2044", "U+00B0", "U+00D7"}

RECURSIVE Texts(_)
\* the texts of at most n characters
Texts(n) ==
    IF n = 0 THEN {<<>>}
    ELSE Texts(n - 1)
         \cup {Append(t, c) : t \in {u \in Texts(n - 1) : Len(u) = n - 1}, c \in Alphabet}

\* '50% off'
SampleText == <<"5", "0", "%", " ", "o", "f", "f">>

EscapeLatexCall ==
    /\ CanApply("escape_latex", 2)
    /\ pure' = Returned(escape_latex(Operand))
    /\ UNCHANGED PipelineVars

\* ---- json_to_latex (lines 494-572) ----
\* A document is the list `latex` of lines that "\n".join puts together.  A
\* line is its fixed markup and, where the code appends an escaped text to
\* the markup, that text.
Fixed(markup) == [cmd |-> markup]
Line(markup, text) == [cmd |-> markup, text |-> text]

\* lines 505-528 : the preamble, down to the title
Preamble(source, title) ==
    <<Fixed("\\documentclass[10pt]{article}"), Fixed("\\usepackage{fontspec}"),
      Fixed("\\usepackage{geometry}"), Fixed("\\usepackage{enumitem}"),
      Fixed("\\usepackage{graphicx}"), Fixed("\\usepackage{paracol}"),
      Fixed("\\usepackage{microtype}"), Fixed("\\usepackage{parskip}"),
      Fixed("\\usepackage{fancyhdr}"), Fixed("\\geometry{letterpaper, margin=0.75in}"),
      Fixed("\\setmainfont{Source Serif 4}"),
      Fixed("\\newfontfamily\\headingfont{Source Serif 4}"),
      Fixed("\\pagestyle{fancy}"), Fixed("\\fancyhf{}"),
      Fixed("\\renewcommand{\\headrulewidth}{0pt}"),
      IF source # <<>>                                   \* line 503
      THEN Line("\\fancyfoot[C]{\\footnotesize }", escape_latex(source))
      ELSE Fixed(""),
      Fixed("\\begin{document}"), Fixed("\\setlist[enumerate,1]{itemsep=0em}"),
      Fixed("\\begin{center}"),
      Line("{\\huge \\bfseries \\headingfont }", escape_latex(title)),
      Fixed("\\end{center}"), Fixed("\\vspace{1em}")>>

\* lines 543-544, 554-555 : the items of a group, one \item line each
ItemLines(items) == [i \in DOMAIN items |-> Line("\\item ", escape_latex(items[i]))]

\* a group whose title line is emitted whether or not it has a title
GroupLines_Titled(g, field, list) ==
    <<Line("\\subsection*{}", escape_latex(Get(g, "title", <<>>)))>>
    \o <<Fixed("\\begin{" \o list \o "}[leftmargin=*]")>>
    \o ItemLines(g[field])
    \o <<Fixed("\\end{" \o list \o "}")>>

\* lines 540-545, 551-556 : the body of the loop over groups
GroupLines(g, field, list) ==
    (IF Get(g, "title", <<>>) # <<>>
     THEN <<Line("\\subsection*{}", escape_latex(g.title))>>
     ELSE <<>>)
    \o <<Fixed("\\begin{" \o list \o "}[leftmargin=*]")>>
    \o ItemLines(g[field])
    \o <<Fixed("\\end{" \o list \o "}")>>

RECURSIVE GroupsLines(_, _, _)
\* lines 539, 550 : for group in groups
GroupsLines(groups, field, list) ==
    IF groups = <<>> THEN <<>>
    ELSE GroupLines(Head(groups), field, list) \o GroupsLines(Tail(groups), field, list)

RECURSIVE ReviewLines_Raw(_)
\* reviews appended as they are
ReviewLines_Raw(revs) ==
    IF revs = <<>> THEN <<>>
    ELSE <<Line("", Head(revs)), Fixed("\\par")>> \o ReviewLines_Raw(Tail(revs))

RECURSIVE ReviewLines(_)
\* lines 566-568 : each review and a \par
ReviewLines(revs) ==
    IF revs = <<>> THEN <<>>
    ELSE <<Line("", escape_latex(Head(revs))), Fixed("\\par")>> \o ReviewLines(Tail(revs))

json_to_latex(rec) ==
    Preamble(Get(rec, "source", <<>>), Get(rec, "title", <<"N", "o", " ", "T", "i", "t", "l", "e">>))
    \o (IF Get(rec, "description", <<>>) # <<>>
        THEN <<Line("\\noindent ", escape_latex(rec.description))>> ELSE <<>>)
    \o <<Fixed("\\vspace{1em}"), Fixed("\\columnratio{0.35}"),
         Fixed("\\begin{paracol}{2}"), Fixed("\\section*{Ingredients}"),
         Fixed("\\raggedright")>>
    \o GroupsLines(Get(rec, "ingredient_groups", <<>>), "ingredients", "itemize")
    \o <<Fixed("\\switchcolumn"), Fixed("\\section*{Instructions}")>>
    \o GroupsLines(Get(rec, "instruction_groups", <<>>), "instructions", "enumerate")
    \o <<Fixed("\\end{paracol}")>>
    \o (IF Get(rec, "notes", <<>>) # <<>>
        THEN <<Fixed("\\section*{Notes}"), Line("", escape_latex(rec.notes))>> ELSE <<>>)
    \o (IF Get(rec, "reviews", <<>>) # <<>>
        THEN <<Fixed("\\section*{Tips}")>> \o ReviewLines(rec.reviews) ELSE <<>>)
    \o <<Fixed("\\end{document}")>>

\* the titles and the item lists of the groups json_to_latex is given
LatexTitles == {<<>>, <<"T", "&">>}
LatexItems(a, b) == {<<>>, <<a>>, <<a, b>>}

\* the recipes handed to json_to_latex: every pair of group lists, without
\* and with a description, notes and reviews
LatexRecipes ==
    LET igs == GroupLists({IGroup(t, i) : t \in LatexTitles,
                              i \in LatexItems(<<"1", "U+2044", "2">>, <<"5", "%">>)},
                          MaxGroups)
        sgs == GroupLists({SGroup(t, i) : t \in LatexTitles,
                              i \in LatexItems(<<"m", "i", "x">>, <<"3", "5", "0", "U+00B0">>)},
                          MaxGroups)
    IN {[title |-> <<"P", "i", "e">>, ingredient_groups |-> ig, instruction_groups |-> sg,
         source |-> <<"u", "r", "l">>, scale |-> 1] : ig \in igs, sg \in sgs}
       \cup {[title |-> <<"P", "i", "e">>, ingredient_groups |-> ig,
              instruction_groups |-> <<>>, description |-> <<"#", "1">>,
              notes |-> <<"_">>, reviews |-> <<<<"o", "k">>>>] : ig \in igs}
       \cup {[title |-> <<"A", "&", "B">>, ingredient_groups |-> ig,
              instruction_groups |-> <<SGroup(<<"T", "&">>, <<<<"{", "m", "}">>>>)>>,
              description |-> <<"#", "1">>, notes |-> <<"~", "5">>, reviews |-> rv,
              source |-> <<"a", "_", "b">>, scale |-> 2]
                : ig \in {<<>>, <<IGroup(<<"T", "&">>, <<<<"5", "%">>>>)>>},
                  rv \in {<<<<"5", "%">>>>, <<<<"5", "%">>, <<"\\", "n">>>>}}

JsonToLatexCall ==
    /\ CanApply("json_to_latex", 1)
    /\ pure' = Returned(json_to_latex(Operand))
    /\ UNCHANGED PipelineVars

\* ---- extract_recipe_text (lines 355-358) ----
\* A page (the BeautifulSoup object) is its tags in document order, tag i
\* having the parent parent[i] (0: the page itself) and the words says[i] in
\* the strings directly inside it, and the contents of its ld+json script
\* tags in document order.
MaxTags == 3

\* the strings of a tag: none, one mentioning a word or two, and other text
TagStrings ==
    {<<>>, <<"ingredients">>, <<"instructions">>, <<"directions">>,
     <<"ingredients", "instructions">>, <<"menu">>}

RECURSIVE Ancestors(_, _)
\* the tags that tag k lies inside, and 0 for the page
Ancestors(parent, k) ==
    IF k = 0 THEN {} ELSE {parent[k]} \cup Ancestors(parent, parent[k])

\* the parent maps that number n tags in document order: the parent of a tag
\* is the page, the tag before it, or an ancestor of the tag before it
Shapes(n) ==
    {p \in [1..n -> 0..n] :
        \A i \in 1..n : /\ p[i] < i
                        /\ i > 1 => p[i] \in {0, i - 1} \cup Ancestors(p, i - 1)}

Soup(p, w, sc) == [parent |-> p, says |-> w, scripts |-> sc]

\* the pages without metadata, of at most n tags
TextPages(n) ==
    UNION {{Soup(p, w, <<>>) : p \in Shapes(k), w \in [1..k -> TagStrings]} : k \in 0..n}

\* the tags inside tag c, and c itself
Subtree(soup, c) ==
    {j \in DOMAIN soup.parent : j = c \/ c \in Ancestors(soup.parent, j)}

\* container.find(string=lambda text: word in text.lower()) found a string
Finds(soup, c, word) ==
    \E j \in Subtree(soup, c) : \E k \in DOMAIN soup.says[j] : soup.says[j][k] = word

\* line 357 : the condition of the if
Mentions(soup, c) ==
    /\ Finds(soup, c, "ingredients")
    /\ Finds(soup, c, "instructions") \/ Finds(soup, c, "directions")

RECURSIVE GetTextFrom(_, _, _)
\* container.get_text(separator=' ', strip=True): the words of the strings of
\* the tags from tag j on that lie inside tag c, in document order
GetTextFrom(soup, c, j) ==
    IF j > Len(soup.parent) THEN <<>>
    ELSE (IF j \in Subtree(soup, c) THEN soup.says[j] ELSE <<>>)
         \o GetTextFrom(soup, c, j + 1)

GetText(soup, c) == GetTextFrom(soup, c, c)

\* lines 356-358 : the first container of soup.find_all() that matches, 0 if none
FirstMatch(soup) ==
    LET hits == {c \in DOMAIN soup.parent : Mentions(soup, c)}
    IN IF hits = {} THEN 0 ELSE CHOOSE c \in hits : \A d \in hits : c <= d

\* the text of that container, or None when the loop ends without a return
extract_recipe_text(soup) ==
    IF FirstMatch(soup) = 0 THEN None ELSE Some(GetText(soup, FirstMatch(soup)))

ExtractRecipeTextCall ==
    /\ CanApply("extract_recipe_text", 1)
    /\ pure' = Returned(extract_recipe_text(Operand))
    /\ UNCHANGED PipelineVars

\* ---- extract_recipe_json, format_recipe, extract_recipe_content (312-368) ----
\* What json.loads returns: a JSON object is the record of its keys, a JSON
\* array is [list |-> ...] and a JSON string is [str |-> ...]; the values the
\* code only copies into text (name, ingredients, step text, review body)
\* are plain strings.
IsObject(v) == DOMAIN v \cap {"list", "str"} = {}

\* a function either returns a value or raises an exception
Returns(v) == [returns |-> v]
Raises(e) == [raises |-> e]

\* a Recipe object whose steps are HowToStep objects, with a review
RecipeOfSteps ==
    ("@type" :> [str |-> "Recipe"]) @@
    [name |-> "Cake", description |-> "Moist.", recipeIngredient |-> <<"flour", "eggs">>,
     recipeInstructions |-> <<[text |-> "Mix."], [text |-> "Bake."]>>,
     review |-> <<[reviewBody |-> "too sweet"]>>]

\* a Recipe object whose steps are plain strings, typed by a list
RecipeOfStrings ==
    ("@type" :> [list |-> <<"Recipe", "NewsArticle">>]) @@
    [name |-> "Pie", recipeIngredient |-> <<"apples">>,
     recipeInstructions |-> <<[str |-> "Fill."], [str |-> "Bake."]>>]

WebSite == ("@type" :> [str |-> "WebSite"]) @@ [name |-> "Recipes"]

\* script.string of an ld+json script tag: None for a tag without a single
\* string, text json.loads rejects, or the text of a JSON value
ScriptStrings ==
    {[string |-> None],
     [garbage |-> "{"],
     [json |-> RecipeOfSteps],
     [json |-> RecipeOfStrings],
     [json |-> WebSite],
     [json |-> [list |-> <<WebSite, RecipeOfSteps>>]],
     [json |-> [str |-> "Cake"]]}

\* lines 320, 323 : x.get("@type") == "Recipe" or "Recipe" in x.get("@type", []);
\* on a string `in` is the substring test, which for the type names of the
\* model holds of "Recipe" alone
TypeIsRecipe(x) ==
    LET t == Get(x, "@type", [list |-> <<>>])
    IN IF "str" \in DOMAIN t THEN t.str = "Recipe"
       ELSE \E i \in DOMAIN t.list : t.list[i] = "Recipe"

RECURSIVE FirstRecipeItem(_)
\* lines 319-321 : the loop over the items of a list; x.get on an item that is
\* no object raises AttributeError
FirstRecipeItem(items) ==
    IF items = <<>> THEN Returns(None)
    ELSE IF ~IsObject(Head(items)) THEN Raises("AttributeError")
    ELSE IF TypeIsRecipe(Head(items)) THEN Returns(Some(Head(items)))
    ELSE FirstRecipeItem(Tail(items))

RECURSIVE extract_recipe_json(_)
\* lines 313-331, over the script tags from the first on; only
\* json.JSONDecodeError is caught inside the loop
extract_recipe_json(scripts) ==
    IF scripts = <<>> THEN Returns(None)
    ELSE LET sc == Head(scripts)
             found == IF "json" \notin DOMAIN sc THEN Returns(None)
                      ELSE IF "list" \in DOMAIN sc.json THEN FirstRecipeItem(sc.json.list)
                      ELSE IF ~IsObject(sc.json) THEN Raises("AttributeError")
                      ELSE IF TypeIsRecipe(sc.json) THEN Returns(Some(sc.json))
                      ELSE Returns(None)
         IN IF "string" \in DOMAIN sc THEN Raises("TypeError")   \* json.loads(None)
            ELSE IF "garbage" \in DOMAIN sc THEN extract_recipe_json(Tail(scripts))
            ELSE IF found = Returns(None) THEN extract_recipe_json(Tail(scripts))
            ELSE found

\* lines 335-347 : the text, line by line
FormattedLines(d) ==
    <<"# " \o Get(d, "name", "No Title"), "",
      Get(d, "description", "No description available."), "", "## Ingredients">>
    \o [i \in DOMAIN Get(d, "recipeIngredient", <<>>) |-> "* " \o d.recipeIngredient[i]]
    \o <<"", "## Instructions">>
    \o [i \in DOMAIN Get(d, "recipeInstructions", <<>>) |->
            ToString(i) \o ". " \o d.recipeInstructions[i].text]

\* lines 334-352 : step['text'] and review['reviewBody'] raise on a step that
\* is a string or lacks the key
format_recipe(d) ==
    LET steps == Get(d, "recipeInstructions", <<>>)
        revs == Get(d, "review", <<>>)
    IN IF \E i \in DOMAIN steps : "str" \in DOMAIN steps[i] THEN Raises("TypeError")
       ELSE IF \E i \in DOMAIN steps : "text" \notin DOMAIN steps[i] THEN Raises("KeyError")
       ELSE IF \E i \in DOMAIN revs : "reviewBody" \notin DOMAIN revs[i]
       THEN Raises("KeyError")
       ELSE Returns([text |-> FormattedLines(d),
                     reviews |-> [i \in DOMAIN revs |-> revs[i].reviewBody]])

\* lines 361-368
extract_recipe_content(soup) ==
    LET recipe_json == extract_recipe_json(soup.scripts)
        recipe_text == extract_recipe_text(soup)
    IN IF "raises" \in DOMAIN recipe_json THEN recipe_json
       ELSE IF ~IsNone(recipe_json.returns) THEN format_recipe(Val(recipe_json.returns))
       ELSE IF ~IsNone(recipe_text) /\ Val(recipe_text) # <<>>
       THEN Returns([text |-> Val(recipe_text), reviews |-> <<>>])
       ELSE Raises("ValueError")

MaxScripts == 2

RECURSIVE ScriptLists(_)
\* the lists of at most n ld+json scripts
ScriptLists(n) ==
    IF n = 0 THEN {<<>>}
    ELSE ScriptLists(n - 1)
         \cup {Append(l, x) : l \in {k \in ScriptLists(n - 1) : Len(k) = n - 1},
                              x \in ScriptStrings}

\* the pages extract_recipe_content is given: every list of scripts on a
\* page without tags, with a tag that mentions both words, and with one
\* that does not
MetadataPages ==
    {Soup(p[1], p[2], sc) :
        p \in {<<<<>>, <<>>>>, <<<<0>>, <<<<"ingredients", "directions">>>>>>,
               <<<<0>>, <<<<"menu">>>>>>},
        sc \in ScriptLists(MaxScripts)}

ExtractRecipeContentCall ==
    /\ CanApply("extract_recipe_content", 1)
    /\ pure' = Returned(extract_recipe_content(Operand))
    /\ UNCHANGED PipelineVars

\* ---- recipe_to_markdown (lines 575-616) ----
\* The document is the string `md`; it is modelled as the sequence of the
\* pieces that the `md +=` statements append, in order.
RECURSIVE MdGroups(_, _, _)
\* lines 590-595, 598-603 : the loop over groups; numbered is TRUE for the
\* instructions
MdGroups(groups, field, numbered) ==
    IF groups = <<>> THEN <<>>
    ELSE LET g == Head(groups)
         IN (IF Get(g, "title", "") # "" THEN <<"### " \o g.title \o "\n\n">> ELSE <<>>)
            \o [i \in DOMAIN g[field] |->
                   IF numbered THEN ToString(i) \o ". " \o g[field][i] \o "\n"
                   ELSE "* " \o g[field][i] \o "\n"]
            \o <<"\n">>
            \o MdGroups(Tail(groups), field, numbered)

\* lines 584-607 : the document up to the notes
MdBody(rec) ==
    <<"# " \o Get(rec, "title", "Recipe") \o "\n\n">>
    \o (IF Get(rec, "description", "") # "" THEN <<rec.description \o "\n\n">> ELSE <<>>)
    \o <<"## Ingredients\n\n">>
    \o MdGroups(Get(rec, "ingredient_groups", <<>>), "ingredients", FALSE)
    \o <<"## Instructions\n\n">>
    \o MdGroups(Get(rec, "instruction_groups", <<>>), "instructions", TRUE)
    \o (IF Get(rec, "notes", "") # "" THEN <<"## Notes\n\n", rec.notes>> ELSE <<>>)

\* lines 613-614 : the source line
MdSource(rec) ==
    IF Get(rec, "source", "") # "" THEN <<"Source: " \o rec.source>> ELSE <<>>

\* lines 575-616; `md += reviews` (line 611) adds a list to a string, which
\* raises TypeError; it is reached when reviews is a non-empty list
recipe_to_markdown(rec) ==
    IF Get(rec, "reviews", <<>>) # <<>>
    THEN Raises("TypeError")
    ELSE Returns(MdBody(rec) \o MdSource(rec))

\* the values main leaves in the reviews field: no field, the empty list of
\* .get('paragraphs', []), and lists of paragraphs
ReviewLists == {<<>>, <<"add salt">>, <<"add salt", "bake longer">>}

\* the recipes write_output may hand to recipe_to_markdown
MarkdownRecipes ==
    {SourceAndScale(r, [url |-> "http://example.com/cake", scale |-> 1])
        : r \in PipelineRecipes}
    \cup {SetKey(SetKey(r, "reviews", rv), "notes", "Keeps a week.")
             : r \in PipelineRecipes, rv \in ReviewLists}

RecipeToMarkdownCall ==
    /\ CanApply("recipe_to_markdown", 1)
    /\ pure' = Returned(recipe_to_markdown(Operand))
    /\ UNCHANGED PipelineVars

\* ---- fix_fractions (lines 404-405) ----
\* Texts are sequences of one-character strings; "U+2044" is the fraction
\* slash.
MaxFraction == 5

\* \d of the pattern, over the characters of FractionAlphabet
IsDigit(c) == c \in {"1", "2"}

\* the characters the texts of fix_fractions are drawn from: two digits, the
\* slash and a letter
FractionAlphabet == {"1", "2", "/", "c"}

RECURSIVE FractionTexts(_)
\* the texts of at most n characters
FractionTexts(n) ==
    IF n = 0 THEN {<<>>}
    ELSE FractionTexts(n - 1)
         \cup {Append(t, c) : t \in {u \in FractionTexts(n - 1) : Len(u) = n - 1},
                              c \in FractionAlphabet}

\* the pattern (\d)/(\d) matches at the head of the text
MatchesAtHead(text) ==
    Len(text) >= 3 /\ IsDigit(text[1]) /\ text[2] = "/" /\ IsDigit(text[3])

RECURSIVE fix_fractions(_)
\* line 405 : re.sub(r'(\d)/(\d)', r'\1<fraction slash>\2', text).  re.sub
\* scans from the left and replaces the matches that do not overlap: after a
\* match the scan goes on behind the second digit.
fix_fractions(text) ==
    IF text = <<>> THEN <<>>
    ELSE IF MatchesAtHead(text)
    THEN <<text[1], "U+2044", text[3]>> \o fix_fractions(SubSeq(text, 4, Len(text)))
    ELSE <<Head(text)>> \o fix_fractions(Tail(text))

FixFractionsCall ==
    /\ CanApply("fix_fractions", 2)
    /\ pure' = Returned(fix_fractions(Operand))
    /\ UNCHANGED PipelineVars

InitPure ==
    /\ InitQuiet
    /\ pure \in {Call("clear_titles", r) : r \in PipelineRecipes}
               \cup {Call("escape_latex", t) : t \in Texts(MaxText) \cup {SampleText}}
               \cup {Call("json_to_latex", r) : r \in LatexRecipes}
               \cup {Call("extract_recipe_text", p) : p \in TextPages(MaxTags)}
               \cup {Call("extract_recipe_content", p) : p \in MetadataPages}
               \cup {Call("recipe_to_markdown", r) : r \in MarkdownRecipes}
               \cup {Call("fix_fractions", t) : t \in FractionTexts(MaxFraction)}

NextPure ==
    \/ ClearTitlesCall
    \/ EscapeLatexCall
    \/ JsonToLatexCall
    \/ ExtractRecipeTextCall
    \/ ExtractRecipeContentCall
    \/ RecipeToMarkdownCall
    \/ FixFractionsCall

SpecPure == InitPure /\ [][NextPure]_vars

(***************************************************************************)
(* Properties of run_pipeline_step and of main in src/main.py.             *)
(***************************************************************************)
\* a stage of src/main.py has returned to main and main has not entered the
\* next one: `attempts` and `sleeps` still hold the values of that stage
StageReturned == prog = "batch" /\ ~inStep /\ prevStage # "none" /\ pc # "failed"

\* the run ended because the service call failed (not because of its content)
CallFailureRaised ==
    prog = "batch" /\ pc = "failed" /\ ~IsNone(failure) /\ Val(failure).origin = "service"

C1_State ==
    /\ attempts <= MaxAttempts
    /\ CallFailureRaised => attempts = MaxAttempts /\ Len(errs) = MaxAttempts
    /\ StageReturned => attempts = sleeps + 1
    /\ (StageReturned /\ sleeps = 2) => attempts = 3

C1_Step ==
    /\ attempts' <= attempts + 1
    /\ (prog = "batch" /\ inStep /\ ~inStep') => attempts' = attempts + 1

\* C1: run_pipeline_step makes at most 3 attempts per stage: two failures and
\* a success return after exactly 3 attempts, three failures raise after
\* exactly 3 attempts, and the attempt that succeeds is the stage's last.
C1_ThreeAttempts == [](C1_State) /\ [][C1_Step]_vars

\* the service failed twice and answered the third call of a stage
C1_Witness == StageReturned /\ attempts = 3 /\ sleeps = 2 /\ failure = None

\* C2: a response that cannot be deserialized is retried while attempts
\* remain: the run fails on such a response only once the 3 attempts are used.
C2_MalformedIsRetried ==
    (prog = "batch" /\ ~IsNone(failure) /\ Val(failure).type = "JSONDecodeError")
        => attempts = MaxAttempts

\* C3: when every attempt fails, the exception that leaves the stage is the
\* one of the last failed attempt, nothing runs afterwards and nothing is
\* printed or written.
C3_LastErrorAborts ==
    CallFailureRaised =>
        /\ Val(failure).type = errs[MaxAttempts]
        /\ ~ENABLED Next
        /\ fileOpens = 0 /\ fileWrites = 0 /\ stdoutWrites = 0
        /\ exit # None /\ Val(exit) # 0

\* three failed attempts whose first and last exceptions differ
C3_Witness ==
    CallFailureRaised /\ Len(errs) = 3 /\ errs[1] # errs[3] /\ prevStage = "convert"

\* the request content that the recipe left by stage ps (which returned pr)
\* must show
SeesStage(user, ps, pr) ==
    CASE ps = "none" -> user = RawText
      [] ps \in WholeStages -> user = Dumps(pr)
      [] ps = "norm_ingr" ->
            /\ IsJson(user) /\ "ingredient_groups" \in DOMAIN Loads(user)
            /\ Loads(user).ingredient_groups = pr.ingredient_groups
      [] ps = "norm_instr" ->
            /\ IsJson(user) /\ "instruction_groups" \in DOMAIN Loads(user)
            /\ Loads(user).instruction_groups = pr.instruction_groups
      [] ps = "tips" ->
            /\ IsJson(user) /\ "reviews" \in DOMAIN Loads(user)
            /\ Loads(user).reviews = Get(pr, "paragraphs", <<>>)

C4_Step ==
    (prog = "batch" /\ attempts' = attempts + 1) =>
        /\ pc \in BatchStages
        /\ prevStage = "none" \/ StageIndex(prevStage) < StageIndex(pc)
        /\ SeesStage(request'[1].user, prevStage, prevReply)

\* C4: the stages of src/main.py run one after another, and every request
\* carries the recipe as merged by the stage that ran immediately before.
C4_RequestSeesLatestMerge == [][C4_Step]_vars

\* the instructions-normalization request carries the title of one reply and
\* the ingredient groups of the ingredients-normalization reply
C4_Witness ==
    /\ prog = "batch" /\ pc = "norm_instr" /\ inStep /\ attempts > 0
    /\ Get(Loads(request[1].user), "title", "") = "Pie"
    /\ Loads(request[1].user).ingredient_groups = ReplyPlain.ingredient_groups

(***************************************************************************)
(* Properties of the streaming pipeline.                                   *)
(***************************************************************************)
\* a normalization stage of the streaming main has just returned and nothing
\* has touched `recipe` since
JustNormalized(s) ==
    /\ prog = "stream" /\ ~inStep /\ prevStage = s
    /\ pc \in {"s_norm_instr", "s_revise", "s_group", "s_shape"}
    /\ ~IsNone(lastYielded)

\* C5: with --normalize, after the normalize-ingredients stage the recipe's
\* ingredients are the stage's final result, and after the
\* normalize-instructions stage its instructions are that stage's final
\* result, with or without --verbose.
C5_NormalizedListsMerged ==
    /\ JustNormalized("s_norm_ingr") =>
            recipe.ingredients = Val(lastYielded).ingredients
    /\ JustNormalized("s_norm_instr") =>
            recipe.instructions = Val(lastYielded).instructions

C6_Step == (prog = "stream" /\ inStep /\ inStep') => recipe' = recipe

\* C6: while a stage streams, the partial results handed to the callback
\* never change the recipe; only the merge after the end of the stream does.
C6_PartialsNeverChangeRecipe == [][C6_Step]_vars

\* C7: an error raised by the progress callback never fails the pipeline.
C7_CallbackErrorNeverFails ==
    ~(prog = "stream" /\ ~IsNone(failure) /\ Val(failure).origin = "callback")

\* C8: in the streaming pipeline a failed service call is attempted again;
\* the failure is fatal only after max_attempts (3) attempts.
C8_StreamStageRetried ==
    (prog = "stream" /\ ~IsNone(failure) /\ Val(failure).origin = "service")
        => attempts = MaxAttempts

(***************************************************************************)
(* Properties of the output step of both programs.                         *)
(***************************************************************************)
InRan(s) == \E i \in DOMAIN ran : ran[i] = s

\* every stage the command line enables, and the closing group handling,
\* have completed
PipelineCompleted ==
    IF prog = "batch"
    THEN /\ \A s \in BatchStages : StageEnabled(s, args, reviews) => InRan(s)
         /\ InRan("finish")
    ELSE /\ \A s \in StreamStages : StreamStageEnabled(s, args) => InRan(s)
         /\ InRan("s_shape")

\* the run was ended by a stage: its call, its response, its callback, the
\* statements of main around it, or an interrupt during it
StageRaised ==
    /\ ~IsNone(failure)
    /\ Val(failure).origin \in {"service", "response", "callback", "interrupt", "main"}

C9_State ==
    /\ fileOpens <= 1 /\ fileWrites <= fileOpens
    /\ fileOpens > 0 => PipelineCompleted
    /\ StageRaised => fileOpens = 0 /\ fileWrites = 0

C9_Step == fileOpens' # fileOpens => (pc \in {"write", "s_output"} /\ fileOpens = 0)

\* C9: in both programs the output file is opened and written at most once,
\* and only after every enabled stage and the closing group handling have
\* completed; a run ended by a stage or by an interrupt opens no file.
C9_OutputWrittenOnceAtEnd == [](C9_State) /\ [][C9_Step]_vars

\* the batch program wrote its file after the nine stages and the clearing
C9_Witness == prog = "batch" /\ fileWrites = 1 /\ Len(ran) = 10 /\ pc = "done"

\* the format the command line asks for: the flag, else the extension of the
\* output path, else json
RequestedFormat ==
    IF ~IsNone(args.format) THEN Val(args.format)
    ELSE IF IsNone(args.output) THEN "json"
    ELSE IF prog = "batch" THEN SplitExt(Val(args.output))
    ELSE LastDotPart(Val(args.output))

\* C10: a requested format outside {md, tex, pdf, json} ends the run with a
\* non-zero status before the URL is fetched or the service called, and no
\* output file is created.
C10_UnsupportedFormatIsPreflight ==
    RequestedFormat \notin SupportedFormats =>
        /\ ~fetched /\ ~called
        /\ fileOpens = 0 /\ fileWrites = 0
        /\ IsNone(exit) \/ Val(exit) # 0

(***************************************************************************)
(* Properties of the format resolution and of the recipe that is rendered. *)
(***************************************************************************)
\* the output step has acted: it resolved a format, or raised while doing so
OutputStepDone ==
    /\ pc \in {"done", "failed"}
    /\ IF prog = "batch" THEN InRan("finish")
       ELSE InRan("s_shape") /\ recipe # NoRecipe

\* C11: in write_output and in the streaming main alike, the output step
\* resolves the format to the explicit flag when it is given, else to the
\* extension of the output path when one is given, else to json.
C11_FormatResolution ==
    OutputStepDone => outFormat = Some(RequestedFormat)

\* the recipe is about to be handed to a renderer by the output step
AtRenderer ==
    IF prog = "batch" THEN pc = "write" /\ ~IsNone(ResolveFormat(args))
    ELSE /\ pc = "s_output" /\ recipe.shape = "Recipe"
         /\ StreamFormat(args) \in SupportedFormats

\* the item lists of the groups of the recipe at the renderer, both lists
RenderedItemLists ==
    {recipe.ingredient_groups[i].ingredients : i \in DOMAIN recipe.ingredient_groups}
        \cup {recipe.instruction_groups[i].instructions
                  : i \in DOMAIN recipe.instruction_groups}

\* C12: in both programs no ingredient group and no instruction group of the
\* recipe handed to the renderer has an empty item list.
C12_NoEmptyGroupRendered ==
    AtRenderer => <<>> \notin RenderedItemLists

\* the title of a group is empty: "" in a dict of the batch program, None or
\* "" in the name of a group object of the streaming program
TitleEmpty(g) ==
    IF prog = "batch" THEN g.title = "" ELSE ~Truthy(g.name)

\* C13: in both programs, a group list of the recipe handed to the renderer
\* that has exactly one group has that group's title empty, whatever titles
\* the last stage returned.
C13_SingleGroupUntitled ==
    AtRenderer =>
        /\ Len(recipe.ingredient_groups) = 1 => TitleEmpty(recipe.ingredient_groups[1])
        /\ Len(recipe.instruction_groups) = 1 => TitleEmpty(recipe.instruction_groups[1])

C14_ClearingIdempotent ==
    (pure.fn = "clear_titles" /\ Len(pure.results) = 2)
        => pure.results[2] = pure.results[1]

\* the clearing was applied twice to a recipe that it changed the first time
C14_Witness ==
    /\ pure.fn = "clear_titles" /\ Len(pure.results) = 2
    /\ pure.results[1] # pure.arg
    /\ Len(pure.arg.ingredient_groups) = 1 /\ Len(pure.arg.instruction_groups) = 2

\* the text s begins with the text p
StartsWith(s, p) == Len(s) >= Len(p) /\ SubSeq(s, 1, Len(p)) = p

\* the characters whose escape sequence the text s begins with
EscapedAtHead(s) == {c \in DOMAIN LatexMapping : StartsWith(s, LatexMapping[c])}

RECURSIVE Unescape(_)
\* the text read back from an escaped one, left to right: an escape sequence
\* stands for its character, any other character for itself, and a
\* markup-sensitive character outside an escape sequence is marked "BARE"
Unescape(s) ==
    IF s = <<>> THEN <<>>
    ELSE IF EscapedAtHead(s) # {}
    THEN LET c == CHOOSE x \in EscapedAtHead(s) : TRUE
         IN <<c>> \o Unescape(SubSeq(s, Len(LatexMapping[c]) + 1, Len(s)))
    ELSE IF Head(s) \in DOMAIN LatexMapping THEN <<"BARE">> \o Unescape(Tail(s))
    ELSE <<Head(s)>> \o Unescape(Tail(s))

\* the characters of a text that are not markup-sensitive, in order
Plain(t) == SelectSeq(t, LAMBDA c : c \notin DOMAIN LatexMapping)

\* the characters of an escaped text outside its escape sequences, in order
Unescaped(s) == SelectSeq(Unescape(s), LAMBDA c : c \notin DOMAIN LatexMapping)

\* C16: escape_latex replaces each of the twelve markup-sensitive characters
\* by its escape sequence exactly once and leaves every other character in
\* place: reading the result back, escape sequence by escape sequence, gives
\* the text again, with no markup-sensitive character outside an escape
\* sequence, the other characters unchanged and in order; '50% off' becomes
\* '50\% off'.
C16_EscapedOnce ==
    (pure.fn = "escape_latex" /\ Len(pure.results) >= 1) =>
        /\ Unescape(pure.results[1]) = pure.arg
        /\ Unescaped(pure.results[1]) = Plain(pure.arg)
        /\ pure.arg = SampleText =>
               pure.results[1] = <<"5", "0", "\\", "%", " ", "o", "f", "f">>

\* '50% off' was escaped
C16_Witness ==
    /\ pure.fn = "escape_latex" /\ pure.arg = SampleText
    /\ Len(pure.results) >= 1 /\ Len(pure.results[1]) = 8

\* C17: escape_latex applied to its own output returns it unchanged.
C17_EscapeIdempotent ==
    (pure.fn = "escape_latex" /\ Len(pure.results) = 2)
        => pure.results[2] = pure.results[1]

\* the first place of the fixed line m in the document doc, 0 when absent
PlaceOf(doc, m) ==
    LET at == {i \in DOMAIN doc : doc[i] = Fixed(m)}
    IN IF at = {} THEN 0 ELSE CHOOSE i \in at : \A j \in at : i <= j

\* the lines of doc strictly between the fixed lines a and b
Between(doc, a, b) == SubSeq(doc, PlaceOf(doc, a) + 1, PlaceOf(doc, b) - 1)

RECURSIVE ReadGroups(_, _)
\* the groups a run of lines shows, read from the markup alone: an optional
\* \subsection* line, the opening of the list, \item lines, its closing
ReadGroups(lines, list) ==
    IF lines = <<>> THEN <<>>
    ELSE LET titled == Head(lines).cmd = "\\subsection*{}"
             rest == IF titled THEN Tail(lines) ELSE lines
             close == PlaceOf(rest, "\\end{" \o list \o "}")
             items == SubSeq(rest, 2, close - 1)
         IN IF \/ rest = <<>>
               \/ Head(rest) # Fixed("\\begin{" \o list \o "}[leftmargin=*]")
               \/ close = 0
               \/ \E i \in DOMAIN items : items[i].cmd # "\\item "
            THEN <<[unreadable |-> lines]>>
            ELSE <<[titled |-> titled,
                    title |-> IF titled THEN Head(lines).text ELSE <<>>,
                    items |-> [i \in DOMAIN items |-> items[i].text]]>>
                 \o ReadGroups(SubSeq(rest, close + 1, Len(rest)), list)

\* what the document has to show of the groups given: each group in order,
\* titled exactly when its title is not empty, its items escaped and in order
Shown(groups, field) ==
    [i \in DOMAIN groups |->
        [titled |-> groups[i].title # <<>>,
         title |-> escape_latex(groups[i].title),
         items |-> [j \in DOMAIN groups[i][field] |->
                       escape_latex(groups[i][field][j])]]]

\* C18: in the document json_to_latex returns, the lines between the
\* Ingredients heading and the column switch are the ingredient groups in
\* input order, each with its items in input order, and the lines between
\* the Instructions heading and the end of the columns are the instruction
\* groups likewise; a group has a title line exactly when its title is not
\* empty.
C18_GroupsInColumns ==
    (pure.fn = "json_to_latex" /\ Len(pure.results) = 1) =>
        LET doc == pure.results[1]
        IN /\ ReadGroups(Between(doc, "\\raggedright", "\\switchcolumn"), "itemize")
                = Shown(pure.arg.ingredient_groups, "ingredients")
           /\ ReadGroups(Between(doc, "\\section*{Instructions}", "\\end{paracol}"),
                         "enumerate")
                = Shown(pure.arg.instruction_groups, "instructions")
           /\ PlaceOf(doc, "\\switchcolumn") + 1 = PlaceOf(doc, "\\section*{Instructions}")

\* a recipe of two ingredient groups, the first untitled and the second
\* titled, and two instruction groups was rendered
C18_Witness ==
    /\ pure.fn = "json_to_latex" /\ Len(pure.results) = 1
    /\ Len(pure.arg.ingredient_groups) = 2 /\ Len(pure.arg.instruction_groups) = 2
    /\ pure.arg.ingredient_groups[1].title = <<>>
    /\ pure.arg.ingredient_groups[2].title # <<>>
    /\ Len(pure.arg.ingredient_groups[2].ingredients) = 2

\* the containers of a page that mention both and hold no other container
\* that mentions both
SmallestMentioning(soup) ==
    {c \in DOMAIN soup.parent :
        /\ Mentions(soup, c)
        /\ \A d \in Subtree(soup, c) \ {c} : ~Mentions(soup, d)}

\* C19: on a page without metadata the text fallback returns the text of a
\* smallest container that mentions both 'ingredients' and 'instructions' or
\* 'directions': no container inside the returned one also mentions both.
C19_SmallestContainer ==
    (pure.fn = "extract_recipe_text" /\ Len(pure.results) = 1
        /\ ~IsNone(pure.results[1])) =>
            \E c \in SmallestMentioning(pure.arg) :
                GetText(pure.arg, c) = Val(pure.results[1])

\* the Recipe objects in the metadata of a page: the JSON objects typed
\* Recipe that a script holds, alone or as an item of a list
RecipeObjects(soup) ==
    LET values == {soup.scripts[i].json :
                      i \in {j \in DOMAIN soup.scripts : "json" \in DOMAIN soup.scripts[j]}}
        items == UNION {{v.list[i] : i \in DOMAIN v.list}
                           : v \in {w \in values : "list" \in DOMAIN w}}
    IN {v \in values \cup items : IsObject(v) /\ TypeIsRecipe(v)}

\* the text of an instruction step of the metadata
StepText(step) == IF "str" \in DOMAIN step THEN step.str ELSE step.text

\* a returned value is the recipe built from the Recipe object o: its text
\* starts with o's name and lists o's steps in order
BuiltFrom(o, r) ==
    /\ "returns" \in DOMAIN r
    /\ r.returns.text[1] = "# " \o o.name
    /\ \E at \in DOMAIN r.returns.text :
           \A i \in DOMAIN o.recipeInstructions :
               /\ at + i \in DOMAIN r.returns.text
               /\ r.returns.text[at + i] =
                      ToString(i) \o ". " \o StepText(o.recipeInstructions[i])

\* C20: extract_recipe_content returns the recipe built from the metadata
\* whenever the page holds a Recipe object; without one it returns the text
\* of a container that mentions both words, with no reviews, when there is
\* such a container, and raises the content-not-found ValueError when there
\* is none.
C20_MetadataThenTextThenError ==
    (pure.fn = "extract_recipe_content" /\ Len(pure.results) = 1) =>
        LET soup == pure.arg
            r == pure.results[1]
        IN IF RecipeObjects(soup) # {}
           THEN \E o \in RecipeObjects(soup) : BuiltFrom(o, r)
           ELSE IF \E c \in DOMAIN soup.parent : Mentions(soup, c)
           THEN \E c \in DOMAIN soup.parent :
                    Mentions(soup, c)
                    /\ r = Returns([text |-> GetText(soup, c), reviews |-> <<>>])
           ELSE r = Raises("ValueError")

(***************************************************************************)
(* Properties of the stages of src/main.py and of the streaming stages.    *)
(***************************************************************************)
\* the reviews field of a recipe, None standing for a missing field
ReviewsOf(rec) == IF "reviews" \in DOMAIN rec THEN Some(rec.reviews) ELSE None

C21_Step ==
    (prog = "batch" /\ InRan("tips") /\ pc' # "failed")
        => ReviewsOf(recipe') = ReviewsOf(recipe)

\* C21: once the tips stage has set the reviews field, every later step of
\* main leaves the recipe with a reviews field of that same value, whatever
\* the revise and final stages return, up to write_output.
C21_ReviewsSurviveLaterStages == [][C21_Step]_vars

\* the last call of the streaming program returned an object, or none was made
LastResultValid == prevStage = "none" \/ prevReply # NoRecipe

\* C22: in the streaming main, while every call returns an object of its
\* response model, no stage raises on the shape of the value the preceding
\* stage left, and what reaches the output step is a Recipe.
C22_ShapesFit ==
    (prog = "stream" /\ LastResultValid) =>
        /\ failure # Some([type |-> "AttributeError", origin |-> "main"])
        /\ pc = "s_output" => recipe.shape = "Recipe"

\* C24: when run_pipeline_step is over, by a return, by the fatal error or by
\* an interrupt, it has taken one delay less than it made attempts.
C24_DelaysBetweenAttempts ==
    (prog = "batch" /\ ~inStep /\ attempts > 0) => sleeps = attempts - 1

\* C25: the request of the scale stage holds the scale argument, in its
\* system prompt or in the recipe it sends.
C25_ScaleRequestHoldsFactor ==
    (prog = "batch" /\ ~IsNone(request)
        /\ Val(request).system.template = "scale_prompt") =>
            \/ Val(request).system.tail = <<args.scale>>
            \/ /\ IsJson(Val(request).user)
               /\ Get(Loads(Val(request).user), "scale", 0) = args.scale

\* C29: the value a streaming stage returns is the last object its response
\* stream yielded, and None for a stream that yielded nothing, whatever the
\* callback did.
C29_ReturnsLastYielded ==
    (prog = "stream" /\ ~inStep /\ prevStage \in StreamStages /\ IsNone(failure)) =>
        prevReply = (IF IsNone(lastYielded) THEN NoRecipe ELSE Val(lastYielded))

\* the order in which main may execute its steps
FixedOrder ==
    <<"convert", "norm_ingr", "norm_instr", "group", "title_notes", "scale", "tips",
      "revise", "final", "finish">>

PlaceInOrder(s) == CHOOSE i \in DOMAIN FixedOrder : FixedOrder[i] = s

\* the condition of the command line and of the fetched reviews under which
\* a step is to run
RunsWhen(s) ==
    CASE s \in {"convert", "finish"} -> TRUE
      [] s \in {"norm_ingr", "norm_instr", "title_notes", "final"} -> args.normalize
      [] s = "group" -> args.group
      [] s = "scale" -> args.scale # 1
      [] s = "tips" -> args.tips /\ reviews # <<>>
      [] s = "revise" -> Truthy(args.revise)

\* C23: in main of src/main.py the steps executed so far begin with the
\* conversion, follow the fixed order convert, normalize-ingredients,
\* normalize-instructions, group, title/notes, scale, tips, revise, final,
\* group-title clearing without repetition, and each ran under its
\* condition; write_output acts only after the clearing, when every step
\* whose condition holds has run.
C23_StagesInFixedOrder ==
    prog = "batch" =>
        /\ \A i \in DOMAIN ran : ran[i] \in {FixedOrder[k] : k \in DOMAIN FixedOrder}
                                  /\ RunsWhen(ran[i])
        /\ \A i, j \in DOMAIN ran : i < j => PlaceInOrder(ran[i]) < PlaceInOrder(ran[j])
        /\ ran # <<>> => ran[1] = "convert"
        /\ (pc \in {"write", "done"} \/ ~IsNone(outFormat)) =>
               \A k \in DOMAIN FixedOrder : RunsWhen(FixedOrder[k]) => InRan(FixedOrder[k])

\* a run with the group, scale and tips stages, and no other optional one,
\* reached write_output
C23_Witness ==
    /\ prog = "batch" /\ pc = "write"
    /\ ran = <<"convert", "group", "scale", "tips", "finish">>

\* C30: the recipe main passes to write_output has the URL argument as
\* its source and the scale argument as its scale, whatever source or scale
\* the result of a stage held.
C30_SourceAndScaleFromArgs ==
    (prog = "batch" /\ pc = "write") =>
        /\ {"source", "scale"} \subseteq DOMAIN recipe
        /\ recipe.source = args.url
        /\ recipe.scale = args.scale

\* the last stage returned a recipe with a source and a scale of its own, and
\* main is about to call write_output
C30_Witness ==
    /\ prog = "batch" /\ pc = "write"
    /\ Get(prevReply, "source", "") = "elsewhere" /\ Get(prevReply, "scale", 0) = 9
    /\ recipe.source = "http://example.com/cake"

\* the field-merging stages and the one field each may write
MergedField(s) ==
    CASE s = "norm_ingr" -> "ingredient_groups"
      [] s = "norm_instr" -> "instruction_groups"
      [] s = "tips" -> "reviews"

\* stage s has just completed
Completes(s) == prog = "batch" /\ ran' = Append(ran, s)

C27_Step ==
    \A s \in {"norm_ingr", "norm_instr", "tips"} :
        Completes(s) =>
            /\ DOMAIN recipe' \subseteq DOMAIN recipe \cup {MergedField(s)}
            /\ \A k \in DOMAIN recipe \ {MergedField(s)} :
                   k \in DOMAIN recipe' /\ recipe'[k] = recipe[k]

\* C27: in main of src/main.py the merge of the ingredients-normalization
\* result writes ingredient_groups only, that of the instructions-
\* normalization result instruction_groups only, and that of the tips result
\* reviews only: every other field of the recipe is the same before and
\* after the stage.
C27_MergesWriteOneField == [][C27_Step]_vars

\* the instructions stage answered with a whole recipe named "Pie"; the
\* recipe took its instruction groups and kept the title "Cake"
C27_Witness ==
    /\ prog = "batch" /\ prevStage = "norm_instr" /\ ~inStep /\ IsNone(failure)
    /\ Get(prevReply, "title", "") = "Pie"
    /\ Get(recipe, "title", "") = "Cake"
    /\ recipe.instruction_groups = prevReply.instruction_groups

C28_Step ==
    prog = "batch" =>
        \* a retry sends the request of the attempt before it
        /\ (inStep /\ attempts >= 1 /\ attempts' = attempts + 1) => request' = request
        \* a failed attempt leaves the recipe and the content to send alone
        /\ Len(errs') > Len(errs) => recipe' = recipe /\ content' = content
        \* inside run_pipeline_step the recipe changes only as an attempt succeeds
        /\ (inStep /\ recipe' # recipe) => (called' /\ ~inStep' /\ pc' # "failed"
                                            /\ errs' = <<>>)

\* C28: in run_pipeline_step a failed attempt changes neither the request nor
\* the recipe: every retry sends the system prompt and the user content of
\* the first attempt, and main's recipe changes only when an attempt has
\* succeeded.
C28_FailedAttemptHasNoEffect == [][C28_Step]_vars

\* a third attempt is about to be made after two failures, with the request
\* of the first attempt
C28_Witness ==
    /\ prog = "batch" /\ inStep /\ attempts = 2 /\ Len(errs) = 2
    /\ request = Some(Messages(pc, args, reviews, content))
    /\ pc = "revise"

\* C26: recipe_to_markdown returns a document for every recipe of the
\* pipeline, a recipe with a non-empty list of review paragraphs included,
\* and the document holds every review paragraph.
C26_MarkdownHoldsReviews ==
    (pure.fn = "recipe_to_markdown" /\ Len(pure.results) = 1) =>
        LET r == pure.results[1]
            revs == Get(pure.arg, "reviews", <<>>)
        IN /\ "returns" \in DOMAIN r
           /\ \A i \in DOMAIN revs : \E k \in DOMAIN r.returns : r.returns[k] = revs[i]

RECURSIVE GroupStrings(_, _)
\* the strings of a list of groups in the order of the list: the title of a
\* group when it is not empty, then its items
GroupStrings(groups, field) ==
    IF groups = <<>> THEN <<>>
    ELSE (IF Get(Head(groups), "title", <<>>) # <<>> THEN <<Head(groups).title>> ELSE <<>>)
         \o Head(groups)[field]
         \o GroupStrings(Tail(groups), field)

\* a field of a recipe as a list of one string, empty when the field is
\* absent or empty
FieldString(rec, key) ==
    IF Get(rec, key, <<>>) # <<>> THEN <<rec[key]>> ELSE <<>>

\* the strings of a recipe that a styled document shows, in document order:
\* source (in the footer of the preamble), title, description, the
\* ingredient groups, the instruction groups, notes, the reviews
Supplied(rec) ==
    FieldString(rec, "source")
    \o <<Get(rec, "title", <<"N", "o", " ", "T", "i", "t", "l", "e">>)>>
    \o FieldString(rec, "description")
    \o GroupStrings(Get(rec, "ingredient_groups", <<>>), "ingredients")
    \o GroupStrings(Get(rec, "instruction_groups", <<>>), "instructions")
    \o FieldString(rec, "notes")
    \o Get(rec, "reviews", <<>>)

\* the texts a document holds beside its fixed markup, in document order
PlacedTexts(doc) ==
    LET lines == SelectSeq(doc, LAMBDA l : "text" \in DOMAIN l)
    IN [i \in DOMAIN lines |-> lines[i].text]

\* C31: in the document json_to_latex returns, the texts beside the fixed
\* markup are exactly the strings of the recipe (source, title, description,
\* group titles, ingredients, instructions, notes, reviews), each escaped
\* exactly once: read back one escape sequence at a time each gives the
\* string of the recipe, with no markup-sensitive character left bare.
C31_EachStringEscapedOnce ==
    (pure.fn = "json_to_latex" /\ Len(pure.results) = 1) =>
        LET out == PlacedTexts(pure.results[1])
            given == Supplied(pure.arg)
        IN /\ Len(out) = Len(given)
           /\ \A i \in DOMAIN out : i \in DOMAIN given => Unescape(out[i]) = given[i]

\* a recipe whose title, source, description, notes, group titles, items
\* and two reviews all hold markup-sensitive characters was rendered
C31_Witness ==
    /\ pure.fn = "json_to_latex" /\ Len(pure.results) = 1
    /\ Get(pure.arg, "title", <<>>) = <<"A", "&", "B">>
    /\ Len(Get(pure.arg, "reviews", <<>>)) = 2
    /\ Len(pure.arg.ingredient_groups) = 1
    /\ Len(PlacedTexts(pure.results[1])) = 10

\* an ASCII slash stands at place i of the text t directly between two digits
SlashBetweenDigits(t, i) ==
    /\ i > 1 /\ i < Len(t)
    /\ t[i] = "/" /\ IsDigit(t[i - 1]) /\ IsDigit(t[i + 1])

\* C32: in the result of fix_fractions no ASCII slash stands directly
\* between two digits, the result differs from the input only where the
\* input has such a slash, which became the fraction slash, and a second
\* application returns the result of the first.
C32_FractionsConverted ==
    (pure.fn = "fix_fractions" /\ Len(pure.results) >= 1) =>
        LET t == pure.arg
            r == pure.results[1]
        IN /\ \A i \in DOMAIN r : ~SlashBetweenDigits(r, i)
           /\ Len(r) = Len(t)
           /\ \A i \in DOMAIN r :
                  (i \in DOMAIN t /\ r[i] # t[i])
                      => (SlashBetweenDigits(t, i) /\ r[i] = "U+2044")
           /\ Len(pure.results) = 2 => pure.results[2] = r

====
